---- MODULE Spec2Model ----
(***************************************************************************)
(* Visual query builder: the SQL generator and validator                   *)
(* (SQLGenerator.generateSQL / validateSQL), the query-builder page that   *)
(* drives them, and the server's execute / export routes.                  *)
(*                                                                         *)
(* Texts are TLA+ strings; a character is a string of length 1.            *)
(***************************************************************************)
EXTENDS Integers, Sequences, FiniteSets, TLC

VARIABLES
    sql,                \* validateSQL: the text under validation
    validation,         \* validateSQL: <<>> before the call, <<result>> after
    config,             \* generateSQL: the QueryConfig being rendered
    rendered,           \* generateSQL: <<>> before the call, <<text>> after
    raised,             \* generateSQL: <<>>, or <<error>> once the call has thrown
    request,            \* server: the request being handled
    storageQueries,     \* server: texts handed to storage.executeQuery
    response,           \* server: <<>> while handling, <<status>> once answered
    queryConfig,        \* page: useState queryConfig
    generatedSQL,       \* page: useState generatedSQL
    queryResults,       \* page: useState queryResults (<<>> is null)
    showResultsDialog,  \* page: useState showResultsDialog
    resultsPage,        \* page: useState resultsPage
    latestPending,      \* page: the latest executeQueryMutation is pending
    olderInFlight,      \* page: earlier mutations still awaiting their response
    lastIssued,         \* page: the request issued by the last handler, if any
    canvasColumnsCache, \* QueryCanvas: useState columnsCache
    canvasIsLoadingColumns, \* QueryCanvas: useState isLoadingColumns
    canvasFetchRuns,    \* QueryCanvas: the fetchMissingColumns calls awaiting a fetch
    columnsCache,       \* QueryConfiguration: useState columnsCache
    availableColumns,   \* QueryConfiguration: useState availableColumns
    errorTables,        \* QueryConfiguration: useState errorTables
    isLoadingColumns,   \* QueryConfiguration: useState isLoadingColumns
    fetchRuns,          \* QueryConfiguration: the fetchMissingColumns calls awaiting a fetch
    effectDue,          \* QueryConfiguration: a dependency of the effect changed since its last run
    columnsCacheObject, \* QueryConfiguration: which object columnsCache holds (identities reused cyclically)
    currentConfig,      \* ExternalDatabaseManager.currentConfig (<<>> is null)
    useExternalDB,      \* DatabaseStorage.useExternalDB
    connectRequests,    \* server: POST /api/database/connect requests testing their connection
    disconnectRequests, \* server: POST /api/database/disconnect requests awaiting the import
    disconnects,        \* server: how many disconnect requests have been answered
    configuredBy,       \* server: the value of disconnects when the connect that set currentConfig arrived
    lastRoute           \* DatabaseStorage.executeQuery: where the last query went

validatorVars == <<sql, validation>>
generatorVars == <<config, rendered, raised>>
serverVars == <<request, storageQueries, response>>
pageVars == <<queryConfig, generatedSQL, queryResults, showResultsDialog,
              resultsPage, latestPending, olderInFlight, lastIssued>>
canvasCacheVars == <<canvasColumnsCache, canvasIsLoadingColumns, canvasFetchRuns>>
panelVars == <<columnsCache, availableColumns, errorTables, isLoadingColumns, fetchRuns,
               effectDue, columnsCacheObject>>
externalVars == <<currentConfig, useExternalDB, connectRequests, disconnectRequests,
                  disconnects, configuredBy, lastRoute>>
vars == <<sql, validation, config, rendered, raised, request, storageQueries, response,
          queryConfig, generatedSQL, queryResults, showResultsDialog,
          resultsPage, latestPending, olderInFlight, lastIssued,
          canvasColumnsCache, canvasIsLoadingColumns, canvasFetchRuns,
          columnsCache, availableColumns, errorTables, isLoadingColumns, fetchRuns,
          effectDue, columnsCacheObject,
          currentConfig, useExternalDB, connectRequests, disconnectRequests,
          disconnects, configuredBy, lastRoute>>

(***************************************************************************)
(* Bounds                                                                  *)
(***************************************************************************)
MaxFragments == 3
MaxTables == 2
MaxJoins == 2
MaxPage == 3
MaxOlderInFlight == 1
MaxConditions == 1

(***************************************************************************)
(* JavaScript string primitives                                            *)
(***************************************************************************)
UpperLetters == "ABCDEFGHIJKLMNOPQRSTUVWXYZ"
LowerLetters == "abcdefghijklmnopqrstuvwxyz"
WhiteSpace == {" ", "\t", "\n", "\r", "\f"}

CharAt(s, i) == SubSeq(s, i, i)

UpperSet == {CharAt(UpperLetters, i) : i \in 1..Len(UpperLetters)}
LowerOf ==
    [c \in UpperSet |->
        CharAt(LowerLetters, CHOOSE i \in 1..Len(UpperLetters) : CharAt(UpperLetters, i) = c)]

toLowerChar(c) == IF c \in UpperSet THEN LowerOf[c] ELSE c

\* character by character; the text is halved so that long texts stay shallow
RECURSIVE toLowerCase(_)
toLowerCase(s) ==
    IF Len(s) <= 1 THEN toLowerChar(s)
    ELSE IF \A i \in 1..Len(s) : CharAt(s, i) \notin UpperSet THEN s
    ELSE toLowerCase(SubSeq(s, 1, Len(s) \div 2)) \o toLowerCase(SubSeq(s, (Len(s) \div 2) + 1, Len(s)))

trimStart(s) ==
    LET solid == {i \in 1..Len(s) : CharAt(s, i) \notin WhiteSpace}
    IN IF solid = {} THEN ""
       ELSE SubSeq(s, CHOOSE i \in solid : \A j \in solid : i <= j, Len(s))

trimEnd(s) ==
    LET solid == {i \in 1..Len(s) : CharAt(s, i) \notin WhiteSpace}
    IN IF solid = {} THEN ""
       ELSE SubSeq(s, 1, CHOOSE i \in solid :
                            \A j \in (i + 1)..Len(s) : CharAt(s, j) \in WhiteSpace)

trim(s) == trimEnd(trimStart(s))

startsWith(s, prefix) ==
    Len(s) >= Len(prefix) /\ SubSeq(s, 1, Len(prefix)) = prefix

includes(s, needle) ==
    \E i \in 1..(Len(s) - Len(needle) + 1) : SubSeq(s, i, i + Len(needle) - 1) = needle

\* (s.match(/c/g) || []).length for a one-character pattern
matchCount(s, c) == Cardinality({i \in 1..Len(s) : CharAt(s, i) = c})

RECURSIVE joinStrings(_, _)
joinStrings(list, sep) ==
    IF Len(list) = 0 THEN ""
    ELSE IF Len(list) = 1 THEN list[1]
    ELSE list[1] \o sep \o joinStrings(Tail(list), sep)

(***************************************************************************)
(* SQLGenerator.validateSQL                                                *)
(***************************************************************************)
ErrStartSelect == "Query must start with SELECT"
ErrNoFrom == "Query must include FROM clause"
ErrParens == "Unbalanced parentheses in query"
ErrRestricted == "Query contains restricted keywords"

dangerousKeywords == <<"drop", "delete", "update", "insert", "alter", "create", "truncate">>

\* Variants of validateSQL with one rule changed
validateSQL_noFromRule(text) ==
    LET normalizedSql == toLowerCase(trim(text))
        errors ==
            (IF ~startsWith(normalizedSql, "select") THEN <<ErrStartSelect>> ELSE <<>>)
            \o (IF matchCount(text, "(") # matchCount(text, ")") THEN <<ErrParens>> ELSE <<>>)
            \o (IF \E k \in 1..Len(dangerousKeywords) : includes(normalizedSql, dangerousKeywords[k])
                THEN <<ErrRestricted>> ELSE <<>>)
    IN [isValid |-> Len(errors) = 0, errors |-> errors]

validateSQL_leadingKeywordOnly(text) ==
    LET normalizedSql == toLowerCase(trim(text))
        errors ==
            (IF ~startsWith(normalizedSql, "select") THEN <<ErrStartSelect>> ELSE <<>>)
            \o (IF ~includes(normalizedSql, "from") THEN <<ErrNoFrom>> ELSE <<>>)
            \o (IF matchCount(text, "(") # matchCount(text, ")") THEN <<ErrParens>> ELSE <<>>)
            \o (IF \E k \in 1..Len(dangerousKeywords) : startsWith(normalizedSql, dangerousKeywords[k])
                THEN <<ErrRestricted>> ELSE <<>>)
    IN [isValid |-> Len(errors) = 0, errors |-> errors]

validateSQL_shortCircuit(text) ==
    LET normalizedSql == toLowerCase(trim(text))
        errors ==
            IF ~startsWith(normalizedSql, "select") THEN <<ErrStartSelect>>
            ELSE IF ~includes(normalizedSql, "from") THEN <<ErrNoFrom>>
            ELSE IF matchCount(text, "(") # matchCount(text, ")") THEN <<ErrParens>>
            ELSE IF \E k \in 1..Len(dangerousKeywords) : includes(normalizedSql, dangerousKeywords[k])
                 THEN <<ErrRestricted>>
            ELSE <<>>
    IN [isValid |-> Len(errors) = 0, errors |-> errors]

validateSQL_selectAnywhere(text) ==
    LET normalizedSql == toLowerCase(trim(text))
        errors ==
            (IF ~includes(normalizedSql, "select") THEN <<ErrStartSelect>> ELSE <<>>)
            \o (IF ~includes(normalizedSql, "from") THEN <<ErrNoFrom>> ELSE <<>>)
            \o (IF matchCount(text, "(") # matchCount(text, ")") THEN <<ErrParens>> ELSE <<>>)
            \o (IF \E k \in 1..Len(dangerousKeywords) : includes(normalizedSql, dangerousKeywords[k])
                THEN <<ErrRestricted>> ELSE <<>>)
    IN [isValid |-> Len(errors) = 0, errors |-> errors]

validateSQL_unclosedOnly(text) ==
    LET normalizedSql == toLowerCase(trim(text))
        errors ==
            (IF ~startsWith(normalizedSql, "select") THEN <<ErrStartSelect>> ELSE <<>>)
            \o (IF ~includes(normalizedSql, "from") THEN <<ErrNoFrom>> ELSE <<>>)
            \o (IF matchCount(text, "(") > matchCount(text, ")") THEN <<ErrParens>> ELSE <<>>)
            \o (IF \E k \in 1..Len(dangerousKeywords) : includes(normalizedSql, dangerousKeywords[k])
                THEN <<ErrRestricted>> ELSE <<>>)
    IN [isValid |-> Len(errors) = 0, errors |-> errors]


validateSQL(text) ==
    LET normalizedSql == toLowerCase(trim(text))
        openParens == matchCount(text, "(")
        closeParens == matchCount(text, ")")
        hasDangerousKeywords ==
            \E k \in 1..Len(dangerousKeywords) : includes(normalizedSql, dangerousKeywords[k])
        errors ==
            (IF ~startsWith(normalizedSql, "select") THEN <<ErrStartSelect>> ELSE <<>>)
            \o (IF ~includes(normalizedSql, "from") THEN <<ErrNoFrom>> ELSE <<>>)
            \o (IF openParens # closeParens THEN <<ErrParens>> ELSE <<>>)
            \o (IF hasDangerousKeywords THEN <<ErrRestricted>> ELSE <<>>)
    IN [isValid |-> Len(errors) = 0, errors |-> errors]

(***************************************************************************)
(* SQLGenerator.generateSQL                                                *)
(*                                                                         *)
(* An optional string (alias, function, logicalOperator) that is undefined *)
(* is the empty string: the code only tests such fields for truthiness.    *)
(* An optional limit is <<>> when undefined and <<n>> when set.            *)
(* An entry of selectedTables is a string (types/query QueryConfig) or the *)
(* object {schema, tableName, alias} the page and the canvas store.        *)
(***************************************************************************)
Digits == "0123456789"
DigitSet == {CharAt(Digits, k) : k \in 1..Len(Digits)}
HexDigitSet == DigitSet \cup {"a", "b", "c", "d", "e", "f", "A", "B", "C", "D", "E", "F"}

RECURSIVE naturalToString(_)
naturalToString(n) ==
    IF n < 10 THEN CharAt(Digits, n + 1)
    ELSE naturalToString(n \div 10) \o CharAt(Digits, (n % 10) + 1)

\* `${n}` of an integer
numberToString(n) == IF n < 0 THEN "-" \o naturalToString(0 - n) ELSE naturalToString(n)

\* `${table}` of a selectedTables entry
tableToString(table) == IF table.kind = "object" THEN "[object Object]" ELSE table.text

AllCharsIn(s, set) == \A i \in 1..Len(s) : CharAt(s, i) \in set

IndexOfAny(s, set) ==
    IF \E i \in 1..Len(s) : CharAt(s, i) \in set
    THEN CHOOSE i \in 1..Len(s) :
             CharAt(s, i) \in set /\ \A j \in 1..(i - 1) : CharAt(s, j) \notin set
    ELSE 0

\* StrDecimalLiteral without sign: digits [. [digits]] [exponent] | . digits [exponent]
isUnsignedDecimal(s) ==
    LET e == IndexOfAny(s, {"e", "E"})
        mantissa == IF e = 0 THEN s ELSE SubSeq(s, 1, e - 1)
        exponent == IF e = 0 THEN "" ELSE SubSeq(s, e + 1, Len(s))
        expDigits == IF Len(exponent) > 0 /\ CharAt(exponent, 1) \in {"+", "-"}
                     THEN SubSeq(exponent, 2, Len(exponent)) ELSE exponent
        dot == IndexOfAny(mantissa, {"."})
        intPart == IF dot = 0 THEN mantissa ELSE SubSeq(mantissa, 1, dot - 1)
        fracPart == IF dot = 0 THEN "" ELSE SubSeq(mantissa, dot + 1, Len(mantissa))
    IN /\ AllCharsIn(intPart, DigitSet)
       /\ AllCharsIn(fracPart, DigitSet)
       /\ Len(intPart) + Len(fracPart) > 0
       /\ (e # 0 => Len(expDigits) > 0 /\ AllCharsIn(expDigits, DigitSet))

\* !isNaN(Number(value)): StringToNumber accepts the text
isNumericString(value) ==
    LET t == trim(value)
        unsigned == IF Len(t) > 0 /\ CharAt(t, 1) \in {"+", "-"} THEN SubSeq(t, 2, Len(t)) ELSE t
        radixDigits == SubSeq(t, 3, Len(t))
    IN \/ t = ""
       \/ unsigned = "Infinity"
       \/ isUnsignedDecimal(unsigned)
       \/ /\ Len(t) > 2
          /\ \/ SubSeq(t, 1, 2) \in {"0x", "0X"} /\ AllCharsIn(radixDigits, HexDigitSet)
             \/ SubSeq(t, 1, 2) \in {"0o", "0O"} /\ AllCharsIn(radixDigits, {"0", "1", "2", "3", "4", "5", "6", "7"})
             \/ SubSeq(t, 1, 2) \in {"0b", "0B"} /\ AllCharsIn(radixDigits, {"0", "1"})

\* the column expression with COUNT wrapping the qualified name always
columnExpr_noStarCase(col) ==
    LET base == col.tableName \o "." \o col.columnName
        applied ==
            IF col.function = "DATE_TRUNC" THEN "DATE_TRUNC('day', " \o base \o ")"
            ELSE IF col.function = "EXTRACT" THEN "EXTRACT(year FROM " \o base \o ")"
            ELSE IF col.function \in {"COUNT", "SUM", "AVG", "MIN", "MAX", "UPPER", "LOWER", "LENGTH"}
                 THEN col.function \o "(" \o base \o ")"
            ELSE base
    IN IF col.alias # "" THEN applied \o " AS " \o col.alias ELSE applied

columnExpr(col) ==
    LET base == col.tableName \o "." \o col.columnName
        applied ==
            IF col.function = "DATE_TRUNC" THEN "DATE_TRUNC('day', " \o base \o ")"
            ELSE IF col.function = "EXTRACT" THEN "EXTRACT(year FROM " \o base \o ")"
            ELSE IF col.function = "COUNT"
                 THEN (IF col.columnName = "*" THEN "COUNT(*)" ELSE "COUNT(" \o base \o ")")
            ELSE IF col.function \in {"SUM", "AVG", "MIN", "MAX", "UPPER", "LOWER", "LENGTH"}
                 THEN col.function \o "(" \o base \o ")"
            ELSE base
    IN IF col.alias # "" THEN applied \o " AS " \o col.alias ELSE applied

\* the SELECT clause with nothing appended for an empty column list
selectClause_noWildcard(cfg) ==
    LET head == IF cfg.distinct THEN "SELECT DISTINCT" ELSE "SELECT"
        columnsList == [i \in 1..Len(cfg.selectedColumns) |-> columnExpr(cfg.selectedColumns[i])]
    IN IF Len(cfg.selectedColumns) = 0
       THEN head
       ELSE head \o "\n  " \o joinStrings(columnsList, ",\n  ")

selectClause(cfg) ==
    LET head == IF cfg.distinct THEN "SELECT DISTINCT" ELSE "SELECT"
        columnsList == [i \in 1..Len(cfg.selectedColumns) |-> columnExpr(cfg.selectedColumns[i])]
    IN IF Len(cfg.selectedColumns) = 0
       THEN head \o " *"
       ELSE head \o "\n  " \o joinStrings(columnsList, ",\n  ")

\* the first table pushed as a part of its own, without the FROM keyword
fromParts_tableOnly(cfg) ==
    IF Len(cfg.selectedTables) > 0
    THEN <<tableToString(cfg.selectedTables[1])>>
         \o (IF Len(cfg.selectedTables) > 1 /\ Len(cfg.joins) = 0
             THEN [i \in 1..(Len(cfg.selectedTables) - 1) |->
                      "CROSS JOIN " \o tableToString(cfg.selectedTables[i + 1])]
             ELSE <<>>)
    ELSE <<>>

\* the FROM part with the CROSS JOIN fallback taken whatever joins holds
fromParts_fallbackDespiteJoins(cfg) ==
    IF Len(cfg.selectedTables) > 0
    THEN <<"FROM " \o tableToString(cfg.selectedTables[1])>>
         \o (IF Len(cfg.selectedTables) > 1
             THEN [i \in 1..(Len(cfg.selectedTables) - 1) |->
                      "CROSS JOIN " \o tableToString(cfg.selectedTables[i + 1])]
             ELSE <<>>)
    ELSE <<>>

fromParts(cfg) ==
    IF Len(cfg.selectedTables) > 0
    THEN <<"FROM " \o tableToString(cfg.selectedTables[1])>>
         \o (IF Len(cfg.selectedTables) > 1 /\ Len(cfg.joins) = 0
             THEN [i \in 1..(Len(cfg.selectedTables) - 1) |->
                      "CROSS JOIN " \o tableToString(cfg.selectedTables[i + 1])]
             ELSE <<>>)
    ELSE <<>>

\* join.additionalConditions is optional: a join record may lack the field
additionalConditionsOf(join) ==
    IF "additionalConditions" \in DOMAIN join THEN join.additionalConditions ELSE <<>>

\* the join part with only the first additional condition appended
joinClause_firstAdditionalOnly(join) ==
    LET additional == additionalConditionsOf(join)
    IN join.type \o " JOIN " \o join.rightTable \o " ON "
       \o join.leftTable \o "." \o join.leftColumn \o " = "
       \o join.rightTable \o "." \o join.rightColumn
       \o (IF Len(additional) > 0
           THEN " AND " \o join.leftTable \o "." \o additional[1].leftColumn
                \o " = " \o join.rightTable \o "." \o additional[1].rightColumn
           ELSE "")

joinClause(join) ==
    LET additional == additionalConditionsOf(join)
    IN join.type \o " JOIN " \o join.rightTable \o " ON "
       \o join.leftTable \o "." \o join.leftColumn \o " = "
       \o join.rightTable \o "." \o join.rightColumn
       \o joinStrings([i \in 1..Len(additional) |->
                          " AND " \o join.leftTable \o "." \o additional[i].leftColumn
                          \o " = " \o join.rightTable \o "." \o additional[i].rightColumn],
                      "")

joinParts(cfg) == [i \in 1..Len(cfg.joins) |-> joinClause(cfg.joins[i])]

\* the value with the default branch quoting numeric text as well
conditionValue_quoteNumbers(condition) ==
    IF condition.operator \in {"IN", "NOT IN"}
    THEN (IF ~startsWith(condition.value, "(") THEN "(" \o condition.value \o ")" ELSE condition.value)
    ELSE IF condition.operator \in {"LIKE", "ILIKE"}
    THEN (IF ~startsWith(condition.value, "'") THEN "'" \o condition.value \o "'" ELSE condition.value)
    ELSE IF condition.operator \in {"IS NULL", "IS NOT NULL"}
    THEN ""
    ELSE IF ~startsWith(condition.value, "'")
    THEN "'" \o condition.value \o "'"
    ELSE condition.value

conditionValue(condition) ==
    IF condition.operator \in {"IN", "NOT IN"}
    THEN (IF ~startsWith(condition.value, "(") THEN "(" \o condition.value \o ")" ELSE condition.value)
    ELSE IF condition.operator \in {"LIKE", "ILIKE"}
    THEN (IF ~startsWith(condition.value, "'") THEN "'" \o condition.value \o "'" ELSE condition.value)
    ELSE IF condition.operator \in {"IS NULL", "IS NOT NULL"}
    THEN ""
    ELSE IF ~isNumericString(condition.value) /\ ~startsWith(condition.value, "'")
    THEN "'" \o condition.value \o "'"
    ELSE condition.value

\* the condition text with the connective rendered for the first condition too
conditionStr_connectiveOnFirst(condition, index) ==
    LET value == conditionValue(condition)
    IN (IF condition.logicalOperator # "" THEN condition.logicalOperator \o " " ELSE "")
       \o condition.column \o " " \o condition.operator
       \o (IF value # "" THEN " " \o value ELSE "")

conditionStr(condition, index) ==
    LET value == conditionValue(condition)
    IN (IF index > 0 /\ condition.logicalOperator # "" THEN condition.logicalOperator \o " " ELSE "")
       \o condition.column \o " " \o condition.operator
       \o (IF value # "" THEN " " \o value ELSE "")

whereParts(cfg) ==
    IF Len(cfg.conditions) > 0
    THEN <<"WHERE " \o joinStrings([i \in 1..Len(cfg.conditions) |->
                                       conditionStr(cfg.conditions[i], i - 1)], " ")>>
    ELSE <<>>

groupByParts(cfg) ==
    IF Len(cfg.groupBy) > 0 THEN <<"GROUP BY " \o joinStrings(cfg.groupBy, ", ")>> ELSE <<>>

orderKept(order) == order.column # "" /\ trim(order.column) # ""

orderByParts(cfg) ==
    LET orderList == [i \in 1..Len(SelectSeq(cfg.orderBy, orderKept)) |->
                         SelectSeq(cfg.orderBy, orderKept)[i].column \o " "
                         \o SelectSeq(cfg.orderBy, orderKept)[i].direction]
    IN IF Len(cfg.orderBy) > 0 /\ Len(orderList) > 0
       THEN <<"ORDER BY " \o joinStrings(orderList, ", ")>>
       ELSE <<>>

\* the LIMIT part emitted for every limit other than zero
limitParts_nonZero(cfg) ==
    IF cfg.limit # <<>> /\ cfg.limit[1] # 0
    THEN <<"LIMIT " \o numberToString(cfg.limit[1])>>
    ELSE <<>>

limitParts(cfg) ==
    IF cfg.limit # <<>> /\ cfg.limit[1] # 0 /\ cfg.limit[1] > 0
    THEN <<"LIMIT " \o numberToString(cfg.limit[1])>>
    ELSE <<>>

\* the array `parts` with the WHERE clause pushed before the JOIN clauses
generateParts_whereBeforeJoins(cfg) ==
    <<selectClause(cfg)>> \o fromParts(cfg) \o whereParts(cfg) \o joinParts(cfg)
    \o groupByParts(cfg) \o orderByParts(cfg) \o limitParts(cfg)

\* the array `parts` when generateSQL returns
generateParts(cfg) ==
    <<selectClause(cfg)>> \o fromParts(cfg) \o joinParts(cfg) \o whereParts(cfg)
    \o groupByParts(cfg) \o orderByParts(cfg) \o limitParts(cfg)

generateSQL(cfg) == joinStrings(generateParts(cfg), "\n")

MsgTypeError == "TypeError: Cannot read properties of undefined (reading 'startsWith')"

\* value.startsWith(...) on a condition whose value property is missing: the
\* IN, LIKE and default branches call it, the IS NULL branch does not
valueCallRaises(condition) ==
    /\ "value" \notin DOMAIN condition
    /\ condition.operator \notin {"IS NULL", "IS NOT NULL"}

\* raising as well when a value is the empty string
generateSQLRaises_onEmptyValue(cfg) ==
    \E i \in 1..Len(cfg.conditions) :
        \/ valueCallRaises(cfg.conditions[i])
        \/ "value" \in DOMAIN cfg.conditions[i] /\ cfg.conditions[i].value = ""

generateSQLRaises(cfg) ==
    \E i \in 1..Len(cfg.conditions) : valueCallRaises(cfg.conditions[i])

(***************************************************************************)
(* Query texts given to the validator and to the server routes             *)
(***************************************************************************)
Fragments ==
    {"select", "SELECT", " ", "\n", " from t", "(", ")", "drop", "DELETE",
     "created_at", "x"}

ExampleTexts ==
    {"SELECT id, name FROM users WHERE status = 'active'",
     "DELETE FROM users",
     "SELECT * FROM t WHERE (a=1",
     "SELECT created_at, updated_at FROM users",
     "select id from t; DROP TABLE t",
     "TRUNCATE TABLE users",
     "  \n\tSeLeCt 1 FROM t  "}

RECURSIVE FragmentTexts(_)
FragmentTexts(n) ==
    IF n = 0 THEN {""}
    ELSE LET shorter == FragmentTexts(n - 1)
         IN shorter \cup {t \o f : t \in shorter, f \in Fragments}

Texts == FragmentTexts(MaxFragments) \cup ExampleTexts

(***************************************************************************)
(* Specification of the validator: a text is chosen, validateSQL runs      *)
(***************************************************************************)
IdleGenerator == config = <<>> /\ rendered = <<>> /\ raised = <<>>
EmptyCache == [key \in {} |-> <<>>]
IdleCanvasCache ==
    /\ canvasColumnsCache = EmptyCache
    /\ canvasIsLoadingColumns = FALSE
    /\ canvasFetchRuns = <<>>
IdlePanel ==
    /\ columnsCache = EmptyCache
    /\ availableColumns = <<>>
    /\ errorTables = <<>>
    /\ isLoadingColumns = FALSE
    /\ fetchRuns = <<>>
    /\ effectDue = FALSE
    /\ columnsCacheObject = 0
IdleExternal ==
    /\ currentConfig = <<>>
    /\ useExternalDB = FALSE
    /\ connectRequests = <<>>
    /\ disconnectRequests = 0
    /\ disconnects = 0
    /\ configuredBy = 0
    /\ lastRoute = ""
IdleServer == request = <<>> /\ storageQueries = {} /\ response = <<>>
IdlePage ==
    /\ queryConfig = <<>>
    /\ generatedSQL = ""
    /\ queryResults = <<>>
    /\ showResultsDialog = FALSE
    /\ resultsPage = 1
    /\ latestPending = FALSE
    /\ olderInFlight = 0
    /\ lastIssued = <<>>
IdleValidator == sql = "" /\ validation = <<>>

InitValidator ==
    /\ sql \in Texts
    /\ validation = <<>>
    /\ IdleGenerator /\ IdleServer /\ IdlePage
    /\ IdleCanvasCache /\ IdlePanel /\ IdleExternal

Validate ==
    /\ validation = <<>>
    /\ validation' = <<validateSQL(sql)>>
    /\ UNCHANGED <<sql, generatorVars, serverVars, pageVars,
                 canvasCacheVars, panelVars, externalVars>>

NextValidator == Validate

SpecValidator == InitValidator /\ [][NextValidator]_vars

(***************************************************************************)
(* The validator's rules, stated on the raw text                           *)
(***************************************************************************)
SameLetter(c, lower) ==
    \/ c = lower
    \/ \E k \in 1..Len(LowerLetters) :
          CharAt(LowerLetters, k) = lower /\ CharAt(UpperLetters, k) = c

\* word occurs in text at position i, in any mix of upper and lower case
OccursAt(text, word, i) ==
    /\ i >= 1
    /\ i + Len(word) - 1 <= Len(text)
    /\ \A j \in 1..Len(word) : SameLetter(CharAt(text, i + j - 1), CharAt(word, j))

Mentions(text, word) == \E i \in 1..Len(text) : OccursAt(text, word, i)

\* after leading white space the text reads "select", in any case
LeadsWithSelect(text) ==
    \E n \in 0..Len(text) :
        /\ \A j \in 1..n : CharAt(text, j) \in WhiteSpace
        /\ OccursAt(text, "select", n + 1)

RECURSIVE CountOf(_, _)
CountOf(text, c) ==
    IF Len(text) = 0 THEN 0
    ELSE IF Len(text) = 1 THEN (IF text = c THEN 1 ELSE 0)
    ELSE CountOf(SubSeq(text, 1, Len(text) \div 2), c)
         + CountOf(SubSeq(text, (Len(text) \div 2) + 1, Len(text)), c)

ParensBalanced(text) == CountOf(text, "(") = CountOf(text, ")")

Denylist == {"drop", "delete", "update", "insert", "alter", "create", "truncate"}

MentionsDenied(text) == \E w \in Denylist : Mentions(text, w)

IdentifierChars ==
    {CharAt(LowerLetters, k) : k \in 1..Len(LowerLetters)}
    \cup {CharAt(UpperLetters, k) : k \in 1..Len(UpperLetters)}
    \cup {"0", "1", "2", "3", "4", "5", "6", "7", "8", "9", "_"}

\* a denylisted word stands in the text as a word of its own
HasDeniedWord(text) ==
    \E w \in Denylist : \E i \in 1..Len(text) :
        /\ OccursAt(text, w, i)
        /\ (i = 1 \/ CharAt(text, i - 1) \notin IdentifierChars)
        /\ (i + Len(w) - 1 = Len(text) \/ CharAt(text, i + Len(w)) \notin IdentifierChars)

Validated == validation # <<>>
Result == validation[1]
ErrorSet == {Result.errors[i] : i \in 1..Len(Result.errors)}

PlainQuery == "SELECT id, name FROM users WHERE status = 'active'"

\* C1: validateSQL returns isValid = true exactly when the text, trimmed and
\* lower-cased, begins with select, contains from, has as many '(' as ')' and
\* contains no denylisted keyword; the errors list is then empty, and the
\* plain query is accepted.
C1_ValidIffAllRulesPass ==
    Validated =>
        /\ Result.isValid <=>
              (/\ LeadsWithSelect(sql)
               /\ Mentions(sql, "from")
               /\ ParensBalanced(sql)
               /\ ~MentionsDenied(sql))
        /\ Result.isValid => Result.errors = <<>>
        /\ sql = PlainQuery => Result.isValid /\ Result.errors = <<>>

C1_Witness == Validated /\ sql = PlainQuery /\ Result.isValid

\* C2: a text that contains a denylisted keyword at any position, not only
\* as its leading token, is rejected with the restricted-keyword error.
C2_DeniedKeywordAnywhereRejected ==
    (Validated /\ MentionsDenied(sql)) =>
        ~Result.isValid /\ ErrRestricted \in ErrorSet

C2_Witness ==
    /\ Validated
    /\ LeadsWithSelect(sql)
    /\ Mentions(sql, "drop")
    /\ ~Result.isValid
    /\ ErrRestricted \in ErrorSet

\* C3: the keyword screen matches whole words: a text in which a denylisted
\* word occurs only inside a longer identifier (created_at, updated_at) and
\* which passes the other three rules is valid, with no restricted-keyword
\* error.
C3_KeywordInsideIdentifierAccepted ==
    (/\ Validated
     /\ LeadsWithSelect(sql)
     /\ Mentions(sql, "from")
     /\ ParensBalanced(sql)
     /\ ~HasDeniedWord(sql)) =>
        Result.isValid /\ ErrRestricted \notin ErrorSet

\* C6: validateSQL does not stop at the first failure: every failed rule
\* adds exactly one message, in the order leading SELECT, FROM, parenthesis
\* balance, restricted keywords, so errors is as long as the failed rules.
C6_ErrorsAccumulateInRuleOrder ==
    Validated =>
        LET failedSelect == ~LeadsWithSelect(sql)
            failedFrom == ~Mentions(sql, "from")
            failedParens == ~ParensBalanced(sql)
            failedDenied == MentionsDenied(sql)
            failures == Cardinality({r \in {1} : failedSelect}) + Cardinality({r \in {2} : failedFrom})
                        + Cardinality({r \in {3} : failedParens}) + Cardinality({r \in {4} : failedDenied})
        IN /\ Result.errors =
                (IF failedSelect THEN <<ErrStartSelect>> ELSE <<>>)
                \o (IF failedFrom THEN <<ErrNoFrom>> ELSE <<>>)
                \o (IF failedParens THEN <<ErrParens>> ELSE <<>>)
                \o (IF failedDenied THEN <<ErrRestricted>> ELSE <<>>)
           /\ Len(Result.errors) = failures

C6_Witness ==
    Validated /\ Result.errors = <<ErrStartSelect, ErrNoFrom, ErrParens, ErrRestricted>>

\* C7: every text that does not begin with select once trimmed and
\* lower-cased is invalid and carries the leading-SELECT error;
\* "DELETE FROM users" is invalid and its errors cite the missing SELECT
\* and/or the forbidden keyword.
C7_NonSelectRejected ==
    Validated =>
        /\ ~LeadsWithSelect(sql) => ~Result.isValid /\ ErrStartSelect \in ErrorSet
        /\ sql = "DELETE FROM users" =>
              ~Result.isValid /\ (ErrStartSelect \in ErrorSet \/ ErrRestricted \in ErrorSet)

C7_Witness ==
    Validated /\ sql = "DELETE FROM users" /\ ~Result.isValid /\ ErrStartSelect \in ErrorSet

\* C8: the parenthesis-balance error is reported, and the text is invalid,
\* exactly when the number of '(' differs from the number of ')';
\* "SELECT * FROM t WHERE (a=1" is rejected with that error and no other.
C8_ParenthesisBalance ==
    Validated =>
        /\ ErrParens \in ErrorSet <=> ~ParensBalanced(sql)
        /\ ~ParensBalanced(sql) => ~Result.isValid
        /\ sql = "SELECT * FROM t WHERE (a=1" => Result.errors = <<ErrParens>>

C8_Witness ==
    Validated /\ sql = "SELECT * FROM t WHERE (a=1" /\ Result.errors = <<ErrParens>> /\ ~Result.isValid

(***************************************************************************)
(* Server routes POST /api/query/execute and POST /api/query/export        *)
(***************************************************************************)
MsgOnlySelect == "Only SELECT queries are allowed for security reasons"
MsgOnlySelectExport == "Only SELECT queries are allowed for export"
MsgExecutionFailed == "Query execution failed"
MsgExportFailed == "Export failed"

\* executeQuerySchema: sql is a string of at least one character
executeQuerySchemaAccepts(text) == Len(text) >= 1

executeGateRejects(text) ==
    LET normalizedSql == toLowerCase(trim(text))
    IN \/ startsWith(normalizedSql, "drop")
       \/ startsWith(normalizedSql, "delete")
       \/ startsWith(normalizedSql, "update")
       \/ startsWith(normalizedSql, "insert")
       \/ startsWith(normalizedSql, "alter")
       \/ startsWith(normalizedSql, "create")

exportGateRejects(text) ==
    LET normalizedSql == toLowerCase(trim(text))
    IN ~startsWith(normalizedSql, "select")

\* The handler runs from the request to its answer or to the call of
\* storage.executeQuery, where it awaits the database.
PostQueryExecute ==
    /\ request[1].route = "execute"
    /\ request[1].stage = "received"
    /\ LET text == request[1].sql
       IN IF ~executeQuerySchemaAccepts(text)
          THEN /\ response' = <<[status |-> 400, message |-> MsgExecutionFailed]>>
               /\ storageQueries' = {}
               /\ request' = <<[request[1] EXCEPT !.stage = "answered"]>>
          ELSE IF executeGateRejects(text)
          THEN /\ response' = <<[status |-> 400, message |-> MsgOnlySelect]>>
               /\ storageQueries' = {}
               /\ request' = <<[request[1] EXCEPT !.stage = "answered"]>>
          ELSE /\ response' = <<>>
               /\ storageQueries' = {text}
               /\ request' = <<[request[1] EXCEPT !.stage = "awaiting"]>>
    /\ UNCHANGED <<validatorVars, generatorVars, pageVars,
                 canvasCacheVars, panelVars, externalVars>>

PostQueryExport ==
    /\ request[1].route = "export"
    /\ request[1].stage = "received"
    /\ LET text == request[1].sql
       IN IF ~executeQuerySchemaAccepts(text)
          THEN /\ response' = <<[status |-> 400, message |-> MsgExportFailed]>>
               /\ storageQueries' = {}
               /\ request' = <<[request[1] EXCEPT !.stage = "answered"]>>
          ELSE IF exportGateRejects(text)
          THEN /\ response' = <<[status |-> 400, message |-> MsgOnlySelectExport]>>
               /\ storageQueries' = {}
               /\ request' = <<[request[1] EXCEPT !.stage = "answered"]>>
          ELSE /\ response' = <<>>
               /\ storageQueries' = {text}
               /\ request' = <<[request[1] EXCEPT !.stage = "awaiting"]>>
    /\ UNCHANGED <<validatorVars, generatorVars, pageVars,
                 canvasCacheVars, panelVars, externalVars>>

\* storage.executeQuery resolves and the handler answers with the result
StorageResolves ==
    /\ request[1].stage = "awaiting"
    /\ response' = <<[status |-> 200, message |-> ""]>>
    /\ request' = <<[request[1] EXCEPT !.stage = "answered"]>>
    /\ UNCHANGED <<storageQueries, validatorVars, generatorVars, pageVars,
                 canvasCacheVars, panelVars, externalVars>>

\* storage.executeQuery throws and the catch block answers 400
StorageRejects ==
    /\ request[1].stage = "awaiting"
    /\ response' = <<[status |-> 400,
                      message |-> IF request[1].route = "execute"
                                  THEN MsgExecutionFailed ELSE MsgExportFailed]>>
    /\ request' = <<[request[1] EXCEPT !.stage = "answered"]>>
    /\ UNCHANGED <<storageQueries, validatorVars, generatorVars, pageVars,
                 canvasCacheVars, panelVars, externalVars>>

\* A request with any body text has arrived at one of the two routes
InitServer ==
    /\ request \in {<<[route |-> r, sql |-> text, stage |-> "received"]>> :
                       r \in {"execute", "export"}, text \in Texts}
    /\ storageQueries = {}
    /\ response = <<>>
    /\ IdleValidator /\ IdleGenerator /\ IdlePage
    /\ IdleCanvasCache /\ IdlePanel /\ IdleExternal

NextServer ==
    \/ PostQueryExecute
    \/ PostQueryExport
    \/ StorageResolves
    \/ StorageRejects

SpecServer == InitServer /\ [][NextServer]_vars

\* C4: both POST /api/query/execute and POST /api/query/export reject every
\* statement whose trimmed, lower-cased text does not begin with select:
\* they answer with an error and never hand the text to
\* storage.executeQuery.
C4_NonSelectNeverReachesStorage ==
    (/\ request # <<>>
     /\ request[1].stage # "received"
     /\ ~LeadsWithSelect(request[1].sql)) =>
        /\ storageQueries = {}
        /\ response # <<>>
        /\ response[1].status = 400

(***************************************************************************)
(* Query configurations given to the generator                             *)
(***************************************************************************)
StringTable(name) ==
    [kind |-> "string", text |-> name, schema |-> "", tableName |-> "", alias |-> ""]
ObjectTable(schema, name, alias) ==
    [kind |-> "object", text |-> "", schema |-> schema, tableName |-> name, alias |-> alias]

SelectedColumn(schema, table, column, alias, fn) ==
    [id |-> schema \o "." \o table \o "." \o column, schema |-> schema,
     tableName |-> table, columnName |-> column, alias |-> alias, function |-> fn]

RECURSIVE SeqsUpTo(_, _)
SeqsUpTo(S, n) ==
    IF n = 0 THEN {<<>>}
    ELSE LET shorter == SeqsUpTo(S, n - 1)
         IN shorter \cup {Append(q, x) : q \in shorter, x \in S}

SampleTables == {StringTable("users"), ObjectTable("public", "orders", "")}

SampleJoins ==
    {[id |-> "join_1", type |-> "INNER", leftTable |-> "orders", leftColumn |-> "user_id",
      rightTable |-> "users", rightColumn |-> "id",
      additionalConditions |-> <<[id |-> "join_condition_1", leftColumn |-> "region",
                                  rightColumn |-> "region"]>>],
     [id |-> "join_2", type |-> "LEFT", leftTable |-> "public.users", leftColumn |-> "",
      rightTable |-> "public.orders", rightColumn |-> "", additionalConditions |-> <<>>]}

SampleColumnLists ==
    {<<>>,
     <<SelectedColumn("public", "users", "id", "", ""),
       SelectedColumn("public", "users", "email", "mail", "UPPER"),
       SelectedColumn("public", "orders", "*", "n", "COUNT")>>}

SampleConditionLists ==
    {<<>>,
     <<[id |-> "condition_1", column |-> "public.users.status", operator |-> "=",
        value |-> "active", logicalOperator |-> ""],
       [id |-> "condition_2", column |-> "public.orders.id", operator |-> "IN",
        value |-> "1, 2", logicalOperator |-> "OR"],
       [id |-> "condition_3", column |-> "public.users.email", operator |-> "IS NOT NULL",
        value |-> "", logicalOperator |-> "AND"]>>}

SampleGroupByLists == {<<>>, <<"public.users.status", "public.users.id">>}

SampleOrderByLists ==
    {<<>>,
     <<[column |-> "public.users.id", direction |-> "DESC"],
       [column |-> "  ", direction |-> "ASC"],
       [column |-> "public.users.email", direction |-> "ASC"]>>}

SampleLimits == {<<>>, <<25>>}

Configs ==
    [selectedTables : SeqsUpTo(SampleTables, MaxTables),
     selectedColumns : SampleColumnLists,
     conditions : SampleConditionLists,
     joins : SeqsUpTo(SampleJoins, MaxJoins),
     groupBy : SampleGroupByLists,
     orderBy : SampleOrderByLists,
     limit : SampleLimits,
     distinct : BOOLEAN]

EmptyConfig ==
    [selectedTables |-> <<>>, selectedColumns |-> <<>>, conditions |-> <<>>, joins |-> <<>>,
     groupBy |-> <<>>, orderBy |-> <<>>, limit |-> <<>>, distinct |-> FALSE]

\* what the page holds after adding table public.users, the columns id and
\* email, and a condition on public.users.status with the value active
UIScenarioConfig ==
    [EmptyConfig EXCEPT
        !.selectedTables = <<ObjectTable("public", "users", "")>>,
        !.selectedColumns = <<SelectedColumn("public", "users", "id", "", ""),
                              SelectedColumn("public", "users", "email", "", "")>>,
        !.conditions = <<[id |-> "condition_1", column |-> "public.users.status",
                          operator |-> "=", value |-> "active", logicalOperator |-> ""]>>]

\* a first condition that carries a connective (its predecessor was removed)
\* and a later one that carries none
ConnectiveConfig ==
    [EmptyConfig EXCEPT
        !.selectedTables = <<StringTable("users")>>,
        !.conditions = <<[id |-> "condition_2", column |-> "users.age", operator |-> ">",
                          value |-> "18", logicalOperator |-> "OR"],
                         [id |-> "condition_3", column |-> "users.name", operator |-> "LIKE",
                          value |-> "a%", logicalOperator |-> ""],
                         [id |-> "condition_4", column |-> "users.age", operator |-> "<",
                          value |-> "65", logicalOperator |-> "AND"]>>]

\* a join with two additional conditions, after one with none and one
\* without the additionalConditions property
ChainedJoinConfig ==
    [EmptyConfig EXCEPT
        !.selectedTables = <<StringTable("o"), StringTable("i")>>,
        !.joins = <<[id |-> "join_2", type |-> "LEFT", leftTable |-> "o", leftColumn |-> "a",
                     rightTable |-> "p", rightColumn |-> "b", additionalConditions |-> <<>>],
                    [id |-> "join_4", type |-> "OUTER", leftTable |-> "o", leftColumn |-> "c",
                     rightTable |-> "q", rightColumn |-> "d"],
                    [id |-> "join_3", type |-> "RIGHT", leftTable |-> "o", leftColumn |-> "id",
                     rightTable |-> "i", rightColumn |-> "order_id",
                     additionalConditions |-> <<[id |-> "join_condition_1", leftColumn |-> "year",
                                                 rightColumn |-> "year"],
                                                [id |-> "join_condition_2", leftColumn |-> "shop",
                                                 rightColumn |-> "shop_id"]>>]>>]

\* fields left blank, as the panels create them before the user fills them in
BlankCondition(operator) ==
    [id |-> "condition_1", column |-> "", operator |-> operator, value |-> "",
     logicalOperator |-> ""]

BlankJoin ==
    [id |-> "join_1", type |-> "INNER", leftTable |-> "public.users", leftColumn |-> "",
     rightTable |-> "public.orders", rightColumn |-> ""]

PartialOperators == {"=", "", "IN", "NOT IN", "LIKE", "NOT LIKE", "IS NULL", "BETWEEN", "~~"}
PartialFunctions == {"", "COUNT", "MEDIAN"}

PartialConfigs ==
    {[EmptyConfig EXCEPT
         !.selectedTables = tables,
         !.selectedColumns = <<SelectedColumn("", "", "", "", fn)>>,
         !.conditions = <<BlankCondition(op)>>,
         !.joins = joins,
         !.orderBy = <<[column |-> "", direction |-> "ASC"]>>] :
       tables \in {<<>>, <<StringTable("")>>},
       fn \in PartialFunctions,
       op \in PartialOperators,
       joins \in {<<>>, <<BlankJoin>>}}
    \cup {EmptyConfig}

\* conditions that lack the value property altogether
ValuelessConfigs ==
    {[EmptyConfig EXCEPT
         !.selectedTables = <<StringTable("users")>>,
         !.conditions = <<[id |-> "condition_1", column |-> "users.id", operator |-> op,
                           logicalOperator |-> ""]>>] :
       op \in {"=", "IN", "LIKE", "IS NULL"}}

\* the operators offered to callers (types/query SQL_OPERATORS)
SQL_OPERATORS ==
    {"=", "!=", "<>", "<", ">", "<=", ">=",
     "LIKE", "ILIKE", "NOT LIKE", "NOT ILIKE",
     "IN", "NOT IN", "IS NULL", "IS NOT NULL",
     "BETWEEN", "NOT BETWEEN"}

\* the function names offered to callers (types/query SQL_FUNCTIONS)
SQL_FUNCTIONS ==
    {"COUNT", "SUM", "AVG", "MIN", "MAX", "DATE_TRUNC", "EXTRACT", "UPPER", "LOWER", "LENGTH"}

\* texts typed into the value field of a condition
SampleValues ==
    {"", "abc", "123", " 12.5 ", "-3", "1e3", "'abc'", "'abc", "x'y",
     "1, 2", "(1, 2)", "(1, 2", "1 AND 5", "a%"}

\* one condition on users.age for every operator and every sample value
ValueConfigs ==
    {[EmptyConfig EXCEPT
         !.selectedTables = <<StringTable("users")>>,
         !.conditions = <<[id |-> "condition_1", column |-> "users.age", operator |-> op,
                           value |-> v, logicalOperator |-> ""]>>] :
       op \in SQL_OPERATORS, v \in SampleValues}

\* orderings with blank entries only or with blank entries in between, under
\* a negative, a zero, a positive and no limit
OrderLimitConfigs ==
    {[EmptyConfig EXCEPT
         !.selectedTables = <<StringTable("users")>>,
         !.orderBy = orders,
         !.limit = limit] :
       orders \in {<<[column |-> "", direction |-> "ASC"], [column |-> " \t", direction |-> "DESC"]>>,
                   <<[column |-> "", direction |-> "ASC"],
                     [column |-> "users.name", direction |-> "DESC"],
                     [column |-> "  ", direction |-> "DESC"],
                     [column |-> "users.id", direction |-> "ASC"]>>},
       limit \in {<<>>, <<-5>>, <<0>>, <<1>>}}

\* one column per offered function, COUNT on the wildcard and on a column,
\* and a column without function; every other column carries an alias
FunctionsConfig ==
    [EmptyConfig EXCEPT
        !.selectedTables = <<StringTable("orders")>>,
        !.selectedColumns =
            <<SelectedColumn("public", "orders", "*", "", "COUNT"),
              SelectedColumn("public", "orders", "id", "n", "COUNT"),
              SelectedColumn("public", "orders", "total", "", "SUM"),
              SelectedColumn("public", "orders", "total", "mean", "AVG"),
              SelectedColumn("public", "orders", "total", "", "MIN"),
              SelectedColumn("public", "orders", "total", "top", "MAX"),
              SelectedColumn("public", "orders", "created_at", "", "DATE_TRUNC"),
              SelectedColumn("public", "orders", "created_at", "y", "EXTRACT"),
              SelectedColumn("public", "orders", "note", "", "UPPER"),
              SelectedColumn("public", "orders", "note", "low", "LOWER"),
              SelectedColumn("public", "orders", "note", "", "LENGTH"),
              SelectedColumn("public", "orders", "*", "all", ""),
              SelectedColumn("public", "orders", "id", "", "")>>]

ScenarioConfigs ==
    {UIScenarioConfig, ConnectiveConfig, ChainedJoinConfig} \cup PartialConfigs \cup ValuelessConfigs
    \cup ValueConfigs \cup OrderLimitConfigs \cup {FunctionsConfig}

(***************************************************************************)
(* Specification of the generator: a configuration is chosen, generateSQL  *)
(* renders it                                                              *)
(***************************************************************************)
InitGenerator ==
    /\ config \in {<<c>> : c \in Configs \cup ScenarioConfigs}
    /\ rendered = <<>>
    /\ raised = <<>>
    /\ IdleValidator /\ IdleServer /\ IdlePage
    /\ IdleCanvasCache /\ IdlePanel /\ IdleExternal

Generate ==
    /\ rendered = <<>>
    /\ raised = <<>>
    /\ IF generateSQLRaises(config[1])
       THEN /\ raised' = <<MsgTypeError>>
            /\ rendered' = <<>>
       ELSE /\ rendered' = <<generateSQL(config[1])>>
            /\ raised' = <<>>
    /\ UNCHANGED <<config, validatorVars, serverVars, pageVars,
                 canvasCacheVars, panelVars, externalVars>>

NextGenerator == Generate

SpecGenerator == InitGenerator /\ [][NextGenerator]_vars

(***************************************************************************)
(* The rendered text read back line by line                                *)
(***************************************************************************)
RECURSIVE SplitLines(_)
SplitLines(text) ==
    LET nl == IndexOfAny(text, {"\n"})
    IN IF nl = 0 THEN <<text>>
       ELSE <<SubSeq(text, 1, nl - 1)>> \o SplitLines(SubSeq(text, nl + 1, Len(text)))

JoinTypes == {"INNER", "LEFT", "RIGHT", "OUTER"}

\* the clause a line opens; "" for a line that continues the SELECT list
ClauseOf(line) ==
    IF startsWith(line, "SELECT") THEN "SELECT"
    ELSE IF startsWith(line, "FROM ") THEN "FROM"
    ELSE IF startsWith(line, "CROSS JOIN ") THEN "CROSS JOIN"
    ELSE IF \E t \in JoinTypes : startsWith(line, t \o " JOIN ") THEN "JOIN"
    ELSE IF startsWith(line, "WHERE ") THEN "WHERE"
    ELSE IF startsWith(line, "GROUP BY ") THEN "GROUP BY"
    ELSE IF startsWith(line, "ORDER BY ") THEN "ORDER BY"
    ELSE IF startsWith(line, "LIMIT ") THEN "LIMIT"
    ELSE ""

OpensClause(line) == ClauseOf(line) # ""

ClauseLines(text) == SelectSeq(SplitLines(text), OpensClause)

Rendered == rendered # <<>>
Cfg == config[1]

\* every clause of the configuration has something to render
AllClausesPopulated(cfg) ==
    /\ Len(cfg.selectedTables) > 0
    /\ Len(cfg.joins) > 0
    /\ Len(cfg.conditions) > 0
    /\ Len(cfg.groupBy) > 0
    /\ \E i \in 1..Len(cfg.orderBy) : trim(cfg.orderBy[i].column) # ""
    /\ cfg.limit # <<>> /\ cfg.limit[1] > 0

\* C10: when every clause type is populated, the rendered clauses stand in
\* the order SELECT, FROM, JOIN (every join, in list order), WHERE,
\* GROUP BY, ORDER BY, LIMIT, each opening a line of its own.
C10_ClauseOrder ==
    (Rendered /\ AllClausesPopulated(Cfg)) =>
        LET clauses == ClauseLines(rendered[1])
            n == Len(Cfg.joins)
        IN /\ [i \in 1..Len(clauses) |-> ClauseOf(clauses[i])]
                 = <<"SELECT", "FROM">> \o [j \in 1..n |-> "JOIN"]
                   \o <<"WHERE", "GROUP BY", "ORDER BY", "LIMIT">>
           /\ \A j \in 1..n :
                 startsWith(clauses[2 + j],
                            Cfg.joins[j].type \o " JOIN " \o Cfg.joins[j].rightTable \o " ON ")

C10_Witness ==
    /\ Rendered
    /\ AllClausesPopulated(Cfg)
    /\ Len(Cfg.joins) = 2
    /\ Cfg.joins[1] # Cfg.joins[2]
    /\ Len(Cfg.selectedColumns) > 1
    /\ Len(ClauseLines(rendered[1])) = 8

Lines == SplitLines(rendered[1])
Clauses == ClauseLines(rendered[1])
ClauseNames == [i \in 1..Len(Clauses) |-> ClauseOf(Clauses[i])]

InSelectList(line) == ClauseOf(line) \in {"SELECT", ""}

\* the SELECT clause on one line: its lines trimmed and joined by a space
SelectClauseText ==
    LET part == SelectSeq(Lines, InSelectList)
    IN joinStrings([i \in 1..Len(part) |-> trim(part[i])], " ")

\* C11: for the configuration the page builds from table public.users (no
\* alias), columns users.id and users.email and the condition
\* public.users.status = active, the rendered clauses are
\* SELECT users.id, users.email / FROM public.users / WHERE status = 'active',
\* in that order.
C11_UIScenarioRendering ==
    (Rendered /\ Cfg = UIScenarioConfig) =>
        /\ ClauseNames = <<"SELECT", "FROM", "WHERE">>
        /\ SelectClauseText = "SELECT users.id, users.email"
        /\ Clauses[2] = "FROM public.users"
        /\ Clauses[3] = "WHERE status = 'active'"

IsCrossJoin(line) == ClauseOf(line) = "CROSS JOIN"
CrossJoinLines == SelectSeq(Lines, IsCrossJoin)

IsJoin(line) == ClauseOf(line) = "JOIN"
JoinLines == SelectSeq(Lines, IsJoin)

RECURSIVE ExpectedAnds(_, _)
ExpectedAnds(join, rest) ==
    IF rest = <<>> THEN ""
    ELSE " AND " \o join.leftTable \o "." \o Head(rest).leftColumn
         \o " = " \o join.rightTable \o "." \o Head(rest).rightColumn
         \o ExpectedAnds(join, Tail(rest))

ExpectedJoin(join) ==
    join.type \o " JOIN " \o join.rightTable \o " ON " \o join.leftTable \o "." \o join.leftColumn
    \o " = " \o join.rightTable \o "." \o join.rightColumn
    \o (IF "additionalConditions" \in DOMAIN join
        THEN ExpectedAnds(join, join.additionalConditions) ELSE "")

RegionJoin ==
    [id |-> "join_1", type |-> "INNER", leftTable |-> "orders", leftColumn |-> "user_id",
     rightTable |-> "users", rightColumn |-> "id",
     additionalConditions |-> <<[id |-> "join_condition_1", leftColumn |-> "region",
                                 rightColumn |-> "region"]>>]

\* C14: each join, in list order, renders as one part
\* <type> JOIN <rightTable> ON <leftTable>.<leftColumn> = <rightTable>.<rightColumn>
\* followed by one " AND <leftTable>.<c.leftColumn> = <rightTable>.<c.rightColumn>"
\* per additional condition in order; a join without additional conditions
\* gets nothing appended.  The INNER join orders.user_id = users.id with the
\* additional condition on region renders as in the example.
C14_JoinRendering ==
    Rendered =>
        LET joinLines == JoinLines
        IN /\ Len(joinLines) = Len(Cfg.joins)
           /\ \A j \in 1..Len(Cfg.joins) :
                 /\ joinLines[j] = ExpectedJoin(Cfg.joins[j])
                 /\ Cfg.joins[j] = RegionJoin =>
                       joinLines[j] = "INNER JOIN users ON orders.user_id = users.id AND orders.region = users.region"

C14_Witness ==
    /\ Rendered
    /\ Cfg = ChainedJoinConfig
    /\ JoinLines = <<"LEFT JOIN p ON o.a = p.b",
                     "OUTER JOIN q ON o.c = q.d",
                     "RIGHT JOIN i ON o.id = i.order_id AND o.year = i.year AND o.shop = i.shop_id">>

\* C15: with no selected columns the first part is "SELECT *", or
\* "SELECT DISTINCT *" when distinct is set, whatever the other fields hold.
C15_WildcardDefault ==
    (Rendered /\ Len(Cfg.selectedColumns) = 0) =>
        Lines[1] = (IF Cfg.distinct THEN "SELECT DISTINCT *" ELSE "SELECT *")

C15_Witness ==
    /\ Rendered
    /\ Len(Cfg.selectedColumns) = 0
    /\ Cfg.distinct
    /\ Len(Cfg.conditions) > 0
    /\ Len(Cfg.joins) > 0
    /\ Lines[1] = "SELECT DISTINCT *"

Generated == rendered # <<>> \/ raised # <<>>

\* every condition carries a value, possibly the empty string
ExpectedConfig(cfg) == \A i \in 1..Len(cfg.conditions) : "value" \in DOMAIN cfg.conditions[i]

\* C16: for the empty configuration and for every partially filled one
\* (blank column paths, values and aliases, joins without
\* additionalConditions, no limit, any operator or function name)
\* generateSQL raises nothing and returns a text.
C16_NoRaiseOnExpectedConfig ==
    (Generated /\ ExpectedConfig(Cfg)) =>
        /\ raised = <<>>
        /\ rendered # <<>>
        /\ startsWith(rendered[1], "SELECT")

C16_Witness ==
    /\ Rendered
    /\ Cfg \in PartialConfigs
    /\ Len(Cfg.joins) = 1
    /\ "additionalConditions" \notin DOMAIN Cfg.joins[1]
    /\ Cfg.conditions[1].operator = "~~"
    /\ Cfg.conditions[1].value = ""
    /\ Cfg.selectedColumns[1].function = "MEDIAN"
    /\ Cfg.limit = <<>>

IsWhere(line) == ClauseOf(line) = "WHERE"
WhereLines == SelectSeq(Lines, IsWhere)

\* what precedes the value of a condition: the connective for a condition
\* after the first that has one, the column, a space, the operator
ConditionHead(cfg, k) ==
    (IF k > 1 /\ cfg.conditions[k].logicalOperator # ""
     THEN cfg.conditions[k].logicalOperator \o " " ELSE "")
    \o cfg.conditions[k].column \o " " \o cfg.conditions[k].operator

ReadsAt(text, word, p) == p + Len(word) - 1 <= Len(text) /\ SubSeq(text, p, p + Len(word) - 1) = word

\* the heads of conditions k.. stand in text in list order from position
\* from on: the first right at the start, each later one after a space
RECURSIVE HeadsInOrder(_, _, _, _)
HeadsInOrder(text, cfg, k, from) ==
    IF k > Len(cfg.conditions) THEN TRUE
    ELSE \E p \in from..Len(text) :
            /\ ReadsAt(text, ConditionHead(cfg, k), p)
            /\ IF k = 1 THEN p = 1 ELSE SubSeq(text, p - 1, p - 1) = " "
            /\ HeadsInOrder(text, cfg, k + 1, p + Len(ConditionHead(cfg, k)))

\* C20: a non-empty conditions list renders as one WHERE part holding the
\* conditions in list order, each as its column verbatim, a space and its
\* operator; a condition after the first is preceded by its connective,
\* the connective of the first condition is not rendered; an empty list
\* renders no WHERE part.
C20_WhereRendering ==
    (Rendered /\ ExpectedConfig(Cfg)) =>
        LET whereLines == WhereLines
        IN IF Len(Cfg.conditions) = 0 THEN Len(whereLines) = 0
           ELSE /\ Len(whereLines) = 1
                /\ startsWith(whereLines[1], "WHERE ")
                /\ HeadsInOrder(SubSeq(whereLines[1], 7, Len(whereLines[1])), Cfg, 1, 1)

C20_Witness ==
    /\ Rendered
    /\ Len(Cfg.conditions) = 3
    /\ Cfg.conditions[1].logicalOperator = "OR"
    /\ Cfg.conditions[3].logicalOperator = "AND"
    /\ WhereLines = <<"WHERE users.age > 18 users.name LIKE 'a%' AND users.age < 65">>

\* the conditions of the WHERE part, without the leading keyword
WhereText == IF Len(WhereLines) = 0 THEN "" ELSE SubSeq(WhereLines[1], 7, Len(WhereLines[1]))

BeginsWith(text, c) == Len(text) > 0 /\ SubSeq(text, 1, 1) = c
EndsWith(text, c) == Len(text) > 0 /\ SubSeq(text, Len(text), Len(text)) = c
Quoted(v) == "'" \o v \o "'"

\* seg stands in text between spaces or the ends of the text
StandsAs(text, seg) ==
    \E p \in 1..Len(text) :
        /\ ReadsAt(text, seg, p)
        /\ p = 1 \/ SubSeq(text, p - 1, p - 1) = " "
        /\ \/ p + Len(seg) - 1 = Len(text)
           \/ SubSeq(text, p + Len(seg), p + Len(seg)) = " "

\* condition k is rendered as its head followed by a space and v, or by
\* nothing when v is empty; a lone condition is the whole WHERE part
RendersValue(cfg, k, v) ==
    LET text == WhereText
        seg == ConditionHead(cfg, k) \o (IF v = "" THEN "" ELSE " " \o v)
    IN /\ StandsAs(text, seg)
       /\ Len(cfg.conditions) = 1 => text = seg

PatternOperators == {"LIKE", "ILIKE", "NOT LIKE", "NOT ILIKE"}
MembershipOperators == {"IN", "NOT IN"}
NullabilityOperators == {"IS NULL", "IS NOT NULL"}
ComparisonOperators == {"=", "!=", "<>", "<", ">", "<=", ">=", "BETWEEN", "NOT BETWEEN"}

\* C21: a condition whose operator is LIKE, ILIKE, NOT LIKE or NOT ILIKE
\* renders its value inside single quotes unless the value already begins
\* with a quote, numeric text such as 123 included.
C21_PatternValueQuoted ==
    (Rendered /\ ExpectedConfig(Cfg)) =>
        \A k \in 1..Len(Cfg.conditions) :
            Cfg.conditions[k].operator \in PatternOperators =>
                LET v == Cfg.conditions[k].value
                IN RendersValue(Cfg, k, IF BeginsWith(v, "'") THEN v ELSE Quoted(v))

C23_MembershipAndNullability ==
    (Rendered /\ ExpectedConfig(Cfg)) =>
        \A k \in 1..Len(Cfg.conditions) :
            LET v == Cfg.conditions[k].value
                list == IF BeginsWith(v, "(") THEN v ELSE "(" \o v \o ")"
            IN /\ Cfg.conditions[k].operator \in MembershipOperators =>
                     /\ RendersValue(Cfg, k, list)
                     /\ BeginsWith(list, "(") /\ EndsWith(list, ")")
               /\ Cfg.conditions[k].operator \in NullabilityOperators =>
                     RendersValue(Cfg, k, "")

IsOrderBy(line) == ClauseOf(line) = "ORDER BY"
IsLimit(line) == ClauseOf(line) = "LIMIT"

BlankText(text) == \A i \in 1..Len(text) : SubSeq(text, i, i) \in {" ", "\t", "\n", "\r"}

\* "<column> <direction>" of the entries whose column path is not blank
RECURSIVE KeptOrders(_)
KeptOrders(entries) ==
    IF entries = <<>> THEN <<>>
    ELSE (IF BlankText(Head(entries).column) THEN <<>>
          ELSE <<Head(entries).column \o " " \o Head(entries).direction>>)
         \o KeptOrders(Tail(entries))

RECURSIVE CommaList(_)
CommaList(items) ==
    IF Len(items) = 1 THEN items[1] ELSE items[1] \o ", " \o CommaList(Tail(items))

\* C24: orderBy entries with an empty or blank column path are skipped, the
\* others are rendered as "<column> <direction>" in list order in one
\* ORDER BY part, and there is no ORDER BY part when every entry is skipped;
\* there is a LIMIT part exactly when limit is a positive integer, none for
\* an absent, zero or negative limit.
C24_OrderByAndLimit ==
    Rendered =>
        LET clauses == Clauses
            orderLines == SelectSeq(clauses, IsOrderBy)
            limitLines == SelectSeq(clauses, IsLimit)
            kept == KeptOrders(Cfg.orderBy)
        IN /\ IF kept = <<>> THEN orderLines = <<>>
              ELSE orderLines = <<"ORDER BY " \o CommaList(kept)>>
           /\ IF Cfg.limit # <<>> /\ Cfg.limit[1] >= 1 THEN Len(limitLines) = 1
              ELSE limitLines = <<>>

C24_Witness ==
    /\ Rendered
    /\ Len(Cfg.orderBy) = 4
    /\ Cfg.limit = <<1>>
    /\ Clauses = <<"SELECT *", "FROM users", "ORDER BY users.name DESC, users.id ASC", "LIMIT 1">>

\* the column expression the SELECT list is to hold for col
ExpectedColumn(col) ==
    LET name == col.tableName \o "." \o col.columnName
        wrapped ==
            CASE col.function = "" -> name
              [] col.function = "DATE_TRUNC" -> "DATE_TRUNC('day', " \o name \o ")"
              [] col.function = "EXTRACT" -> "EXTRACT(year FROM " \o name \o ")"
              [] col.function = "COUNT" /\ col.columnName = "*" -> "COUNT(*)"
              [] col.function = "COUNT" /\ col.columnName # "*" -> "COUNT(" \o name \o ")"
              [] col.function = "SUM" -> "SUM(" \o name \o ")"
              [] col.function = "AVG" -> "AVG(" \o name \o ")"
              [] col.function = "MIN" -> "MIN(" \o name \o ")"
              [] col.function = "MAX" -> "MAX(" \o name \o ")"
              [] col.function = "UPPER" -> "UPPER(" \o name \o ")"
              [] col.function = "LOWER" -> "LOWER(" \o name \o ")"
              [] col.function = "LENGTH" -> "LENGTH(" \o name \o ")"
    IN wrapped \o (IF Len(col.alias) > 0 THEN " AS " \o col.alias ELSE "")

OfferedFunctions(cfg) ==
    \A i \in 1..Len(cfg.selectedColumns) :
        cfg.selectedColumns[i].function \in SQL_FUNCTIONS \cup {""}

\* C25: with selected columns whose functions are among the offered ones (or
\* unset), the SELECT list holds one line per column in insertion order:
\* tableName.columnName wrapped by the function's template (DATE_TRUNC with
\* 'day', EXTRACT with year, COUNT(*) for column name *, COUNT(col)
\* otherwise, FN(col) for the others), verbatim without function, followed
\* by " AS <alias>" exactly when the alias is non-empty.
C25_SelectListRendering ==
    (Rendered /\ Len(Cfg.selectedColumns) > 0 /\ OfferedFunctions(Cfg)) =>
        LET lines == Lines
            n == Len(Cfg.selectedColumns)
        IN /\ Len(lines) > n
           /\ lines[1] = (IF Cfg.distinct THEN "SELECT DISTINCT" ELSE "SELECT")
           /\ \A i \in 1..n :
                 lines[i + 1] = "  " \o ExpectedColumn(Cfg.selectedColumns[i])
                                \o (IF i < n THEN "," ELSE "")
           /\ Len(lines) > n + 1 => ClauseOf(lines[n + 2]) # ""

C25_Witness ==
    /\ Rendered
    /\ Cfg = FunctionsConfig
    /\ SubSeq(Lines, 1, 5) = <<"SELECT", "  COUNT(*),", "  COUNT(orders.id) AS n,",
                               "  SUM(orders.total),", "  AVG(orders.total) AS mean,">>
    /\ SubSeq(Lines, 8, 9) = <<"  DATE_TRUNC('day', orders.created_at),",
                               "  EXTRACT(year FROM orders.created_at) AS y,">>
    /\ SubSeq(Lines, 13, 15) = <<"  orders.* AS all,", "  orders.id", "FROM orders">>

\* the texts of a configuration that its caller supplies
UserTexts(cfg) ==
    {tableToString(cfg.selectedTables[i]) : i \in 1..Len(cfg.selectedTables)}
    \cup UNION {{cfg.selectedColumns[i].tableName, cfg.selectedColumns[i].columnName,
                 cfg.selectedColumns[i].alias, cfg.selectedColumns[i].function} :
                   i \in 1..Len(cfg.selectedColumns)}
    \cup UNION {{cfg.conditions[i].column, cfg.conditions[i].operator, cfg.conditions[i].value,
                 cfg.conditions[i].logicalOperator} : i \in 1..Len(cfg.conditions)}
    \cup UNION {{cfg.joins[i].type, cfg.joins[i].leftTable, cfg.joins[i].leftColumn,
                 cfg.joins[i].rightTable, cfg.joins[i].rightColumn} : i \in 1..Len(cfg.joins)}
    \cup UNION {{c.leftColumn, c.rightColumn} :
                   c \in UNION {{additionalConditionsOf(cfg.joins[i])[j] :
                                    j \in 1..Len(additionalConditionsOf(cfg.joins[i]))} :
                                  i \in 1..Len(cfg.joins)}}
    \cup {cfg.groupBy[i] : i \in 1..Len(cfg.groupBy)}
    \cup UNION {{cfg.orderBy[i].column, cfg.orderBy[i].direction} : i \in 1..Len(cfg.orderBy)}

\* C29: for a configuration with at least one selected table the generated
\* text begins with SELECT and holds a FROM part, validateSQL reports
\* neither the leading-SELECT nor the missing-FROM error on it, and it
\* reports unbalanced parentheses or restricted keywords only when a text
\* supplied with the configuration holds a parenthesis or a restricted
\* keyword.
C29_GeneratedTextPassesLeadingRules ==
    (Rendered /\ Len(Cfg.selectedTables) > 0) =>
        LET text == rendered[1]
            lines == Lines
            result == validateSQL(text)
            errors == {result.errors[i] : i \in 1..Len(result.errors)}
            supplied == UserTexts(Cfg)
        IN /\ ReadsAt(text, "SELECT", 1)
           /\ \E i \in 2..Len(lines) : ReadsAt(lines[i], "FROM ", 1)
           /\ ErrStartSelect \notin errors
           /\ ErrNoFrom \notin errors
           /\ result.isValid <=> errors = {}
           /\ ErrParens \in errors =>
                 \E t \in supplied : CountOf(t, "(") + CountOf(t, ")") > 0
           /\ ErrRestricted \in errors => \E t \in supplied : MentionsDenied(t)

C29_Witness ==
    /\ Rendered
    /\ Cfg = FunctionsConfig
    /\ validateSQL(rendered[1]) = [isValid |-> FALSE, errors |-> <<ErrRestricted>>]

(***************************************************************************)
(* The query-builder page: QueryBuilder with QueryCanvas and QueryResults  *)
(***************************************************************************)
RowsPerPage == 20

\* what the schema panel offers for adding and dragging
CatalogTables == {[schema |-> "public", table |-> "users"], [schema |-> "public", table |-> "orders"]}
CatalogColumns ==
    {[schema |-> "public", table |-> "users", columnName |-> "id"],
     [schema |-> "public", table |-> "users", columnName |-> "created_at"]}
ConditionValues == {"active", "(1"}
ResultRowCounts == {0, 1, RowsPerPage}

tableKey(t) == t.schema \o "." \o t.tableName

\* Array.from(uniqueTableMap.values()): a key keeps the place of its first
\* entry and the value of its last
\* the combined list kept as it is, repeated keys included
uniqueByKey_keepAll(tables, seen) == seen \o tables

RECURSIVE uniqueByKey(_, _)
uniqueByKey(tables, seen) ==
    IF Len(tables) = 0 THEN seen
    ELSE LET t == [Head(tables) EXCEPT !.alias = Head(tables).alias]
             at == {i \in 1..Len(seen) : tableKey(seen[i]) = tableKey(t)}
         IN uniqueByKey(Tail(tables),
                        IF at = {} THEN Append(seen, t)
                        ELSE [i \in 1..Len(seen) |-> IF i \in at THEN t ELSE seen[i]])

\* the effect calling the generator whatever selectedTables holds
renderSQL_always(cfg) == generateSQL(cfg)

\* useEffect on [queryConfig]: runs with the render that follows the update
renderSQL(cfg) == IF Len(cfg.selectedTables) > 0 THEN generateSQL(cfg) ELSE ""

setQueryConfig(cfg) ==
    /\ queryConfig' = cfg
    /\ generatedSQL' = renderSQL(cfg)

\* the results dialog is modal: the builder is operable only while it is closed
BuilderOperable == ~showResultsDialog

isPending == latestPending

\* executeQueryMutation.mutate(page)
mutate ==
    /\ latestPending' = TRUE
    /\ olderInFlight' = IF latestPending THEN olderInFlight + 1 ELSE olderInFlight

CanMutate == latestPending => olderInFlight < MaxOlderInFlight

handleTablesAdd(tableItems) ==
    /\ BuilderOperable
    /\ LET newTables == [i \in 1..Len(tableItems) |->
                            ObjectTable(tableItems[i].schema, tableItems[i].table, "")]
           combinedTables == queryConfig.selectedTables \o newTables
       IN setQueryConfig([queryConfig EXCEPT !.selectedTables = uniqueByKey(combinedTables, <<>>)])
    /\ lastIssued' = <<>>
    /\ UNCHANGED <<queryResults, showResultsDialog, resultsPage, latestPending, olderInFlight,
                   validatorVars, generatorVars, serverVars,
                   canvasCacheVars, panelVars, externalVars>>

RECURSIVE addMissingTables(_, _)
addMissingTables(tables, columns) ==
    IF Len(columns) = 0 THEN tables
    ELSE LET col == Head(columns)
             exists == \E i \in 1..Len(tables) :
                          tables[i].tableName = col.table /\ tables[i].schema = col.schema
         IN addMissingTables(IF exists THEN tables
                             ELSE Append(tables, ObjectTable(col.schema, col.table, "")),
                             Tail(columns))

RECURSIVE addMissingColumns(_, _)
addMissingColumns(selected, columns) ==
    IF Len(columns) = 0 THEN selected
    ELSE LET col == Head(columns)
             id == col.schema \o "." \o col.table \o "." \o col.columnName
             found == \E i \in 1..Len(selected) : selected[i].id = id
         IN addMissingColumns(IF found THEN selected
                              ELSE Append(selected,
                                          SelectedColumn(col.schema, col.table, col.columnName, "", "")),
                              Tail(columns))

handleColumnsAdd(columns) ==
    /\ BuilderOperable
    /\ setQueryConfig([queryConfig EXCEPT
            !.selectedTables = addMissingTables(queryConfig.selectedTables, columns),
            !.selectedColumns = addMissingColumns(queryConfig.selectedColumns, columns)])
    /\ lastIssued' = <<>>
    /\ UNCHANGED <<queryResults, showResultsDialog, resultsPage, latestPending, olderInFlight,
                   validatorVars, generatorVars, serverVars,
                   canvasCacheVars, panelVars, externalVars>>

\* removal that also drops the columns of the removed table
removeTable_cascade(index) ==
    /\ ~showResultsDialog
    /\ index \in 1..Len(queryConfig.selectedTables)
    /\ LET tableToRemove == queryConfig.selectedTables[index]
           keep(t) == ~(t.tableName = tableToRemove.tableName /\ t.schema = tableToRemove.schema)
           keepColumn(c) == ~(c.tableName = tableToRemove.tableName /\ c.schema = tableToRemove.schema)
       IN /\ queryConfig' = [queryConfig EXCEPT
                 !.selectedTables = SelectSeq(queryConfig.selectedTables, keep),
                 !.selectedColumns = SelectSeq(queryConfig.selectedColumns, keepColumn)]
          /\ generatedSQL' = renderSQL(queryConfig')
    /\ lastIssued' = <<>>
    /\ UNCHANGED <<queryResults, showResultsDialog, resultsPage, latestPending, olderInFlight,
                   validatorVars, generatorVars, serverVars,
                   canvasCacheVars, panelVars, externalVars>>

keepTable(t, removed) == ~(t.tableName = removed.tableName /\ t.schema = removed.schema)

removeTable(index) ==
    /\ BuilderOperable
    /\ index \in 1..Len(queryConfig.selectedTables)
    /\ LET tableToRemove == queryConfig.selectedTables[index]
           keep(t) == keepTable(t, tableToRemove)
       IN setQueryConfig([queryConfig EXCEPT
              !.selectedTables = SelectSeq(queryConfig.selectedTables, keep)])
    /\ lastIssued' = <<>>
    /\ UNCHANGED <<queryResults, showResultsDialog, resultsPage, latestPending, olderInFlight,
                   validatorVars, generatorVars, serverVars,
                   canvasCacheVars, panelVars, externalVars>>

removeColumn(index) ==
    /\ BuilderOperable
    /\ index \in 1..Len(queryConfig.selectedColumns)
    /\ LET columnId == queryConfig.selectedColumns[index].id
           keep(c) == c.id # columnId
       IN setQueryConfig([queryConfig EXCEPT
              !.selectedColumns = SelectSeq(queryConfig.selectedColumns, keep)])
    /\ lastIssued' = <<>>
    /\ UNCHANGED <<queryResults, showResultsDialog, resultsPage, latestPending, olderInFlight,
                   validatorVars, generatorVars, serverVars,
                   canvasCacheVars, panelVars, externalVars>>

\* `condition_${Date.now()}`: an id no present condition carries
freshConditionId(conditions) ==
    "condition_" \o naturalToString(
        CHOOSE n \in 1..(Len(conditions) + 1) :
            /\ \A i \in 1..Len(conditions) : conditions[i].id # "condition_" \o naturalToString(n)
            /\ \A m \in 1..(n - 1) :
                  \E i \in 1..Len(conditions) : conditions[i].id = "condition_" \o naturalToString(m))

handleConditionDrop(item) ==
    /\ BuilderOperable
    /\ Len(queryConfig.conditions) < MaxConditions
    /\ LET newCondition ==
               [id |-> freshConditionId(queryConfig.conditions),
                column |-> item.schema \o "." \o item.table \o "." \o item.columnName,
                operator |-> "=",
                value |-> "",
                logicalOperator |-> IF Len(queryConfig.conditions) > 0 THEN "AND" ELSE ""]
       IN setQueryConfig([queryConfig EXCEPT !.conditions = Append(queryConfig.conditions, newCondition)])
    /\ lastIssued' = <<>>
    /\ UNCHANGED <<queryResults, showResultsDialog, resultsPage, latestPending, olderInFlight,
                   validatorVars, generatorVars, serverVars,
                   canvasCacheVars, panelVars, externalVars>>

\* updateCondition(conditionId, {value})
updateConditionValue(index, value) ==
    /\ BuilderOperable
    /\ index \in 1..Len(queryConfig.conditions)
    /\ LET conditionId == queryConfig.conditions[index].id
       IN setQueryConfig([queryConfig EXCEPT
              !.conditions = [i \in 1..Len(queryConfig.conditions) |->
                                 IF queryConfig.conditions[i].id = conditionId
                                 THEN [queryConfig.conditions[i] EXCEPT !.value = value]
                                 ELSE queryConfig.conditions[i]]])
    /\ lastIssued' = <<>>
    /\ UNCHANGED <<queryResults, showResultsDialog, resultsPage, latestPending, olderInFlight,
                   validatorVars, generatorVars, serverVars,
                   canvasCacheVars, panelVars, externalVars>>

removeCondition(index) ==
    /\ BuilderOperable
    /\ index \in 1..Len(queryConfig.conditions)
    /\ LET conditionId == queryConfig.conditions[index].id
           keep(c) == c.id # conditionId
       IN setQueryConfig([queryConfig EXCEPT
              !.conditions = SelectSeq(queryConfig.conditions, keep)])
    /\ lastIssued' = <<>>
    /\ UNCHANGED <<queryResults, showResultsDialog, resultsPage, latestPending, olderInFlight,
                   validatorVars, generatorVars, serverVars,
                   canvasCacheVars, panelVars, externalVars>>

\* The Execute Query button is disabled while a mutation is pending or the
\* generated SQL is blank.
handleExecuteQuery ==
    /\ BuilderOperable
    /\ ~isPending
    /\ trim(generatedSQL) # ""
    /\ IF ~validateSQL(generatedSQL).isValid
       THEN /\ lastIssued' = <<>>
            /\ UNCHANGED <<resultsPage, latestPending, olderInFlight>>
       ELSE /\ resultsPage' = 1
            /\ mutate
            /\ lastIssued' = <<[kind |-> "execute", sql |-> generatedSQL, page |-> 1]>>
    /\ UNCHANGED <<queryConfig, generatedSQL, queryResults, showResultsDialog,
                   validatorVars, generatorVars, serverVars,
                   canvasCacheVars, panelVars, externalVars>>

\* QueryResults renders its buttons inside the dialog; the pagination row
\* needs a result with rows.
PaginationShown == showResultsDialog /\ queryResults # <<>> /\ queryResults[1].rows > 0
canFetchMore == queryResults # <<>> /\ queryResults[1].rows = RowsPerPage

handlePageChange(page) ==
    /\ PaginationShown
    /\ \/ page = resultsPage - 1 /\ resultsPage # 1
       \/ page = resultsPage + 1 /\ canFetchMore /\ page <= MaxPage
    /\ CanMutate
    /\ resultsPage' = page
    /\ mutate
    /\ lastIssued' = <<[kind |-> "execute", sql |-> generatedSQL, page |-> page]>>
    /\ UNCHANGED <<queryConfig, generatedSQL, queryResults, showResultsDialog,
                   validatorVars, generatorVars, serverVars,
                   canvasCacheVars, panelVars, externalVars>>

\* Export CSV is disabled without a result that has rows
handleExport ==
    /\ showResultsDialog
    /\ queryResults # <<>> /\ queryResults[1].rows > 0
    /\ IF generatedSQL = ""
       THEN lastIssued' = <<>>
       ELSE lastIssued' = <<[kind |-> "export", sql |-> generatedSQL, page |-> resultsPage]>>
    /\ UNCHANGED <<queryConfig, generatedSQL, queryResults, showResultsDialog, resultsPage,
                   latestPending, olderInFlight, validatorVars, generatorVars, serverVars,
                   canvasCacheVars, panelVars, externalVars>>

\* executeQueryMutation onSuccess
onSuccess(rows) ==
    /\ queryResults' = <<[rows |-> rows]>>
    /\ showResultsDialog' = TRUE

MutationSucceeds(rows) ==
    /\ latestPending
    /\ latestPending' = FALSE
    /\ onSuccess(rows)
    /\ lastIssued' = <<>>
    /\ UNCHANGED <<queryConfig, generatedSQL, resultsPage, olderInFlight,
                   validatorVars, generatorVars, serverVars,
                   canvasCacheVars, panelVars, externalVars>>

OlderMutationSucceeds(rows) ==
    /\ olderInFlight > 0
    /\ olderInFlight' = olderInFlight - 1
    /\ onSuccess(rows)
    /\ lastIssued' = <<>>
    /\ UNCHANGED <<queryConfig, generatedSQL, resultsPage, latestPending,
                   validatorVars, generatorVars, serverVars,
                   canvasCacheVars, panelVars, externalVars>>

\* executeQueryMutation onError: a toast, no state change
MutationFails ==
    /\ latestPending
    /\ latestPending' = FALSE
    /\ lastIssued' = <<>>
    /\ UNCHANGED <<queryConfig, generatedSQL, queryResults, showResultsDialog, resultsPage,
                   olderInFlight, validatorVars, generatorVars, serverVars,
                   canvasCacheVars, panelVars, externalVars>>

OlderMutationFails ==
    /\ olderInFlight > 0
    /\ olderInFlight' = olderInFlight - 1
    /\ lastIssued' = <<>>
    /\ UNCHANGED <<queryConfig, generatedSQL, queryResults, showResultsDialog, resultsPage,
                   latestPending, validatorVars, generatorVars, serverVars,
                   canvasCacheVars, panelVars, externalVars>>

\* Dialog onOpenChange(false)
CloseResultsDialog ==
    /\ showResultsDialog
    /\ showResultsDialog' = FALSE
    /\ lastIssued' = <<>>
    /\ UNCHANGED <<queryConfig, generatedSQL, queryResults, resultsPage, latestPending,
                   olderInFlight, validatorVars, generatorVars, serverVars,
                   canvasCacheVars, panelVars, externalVars>>

InitPage ==
    /\ queryConfig = EmptyConfig
    /\ generatedSQL = ""
    /\ queryResults = <<>>
    /\ showResultsDialog = FALSE
    /\ resultsPage = 1
    /\ latestPending = FALSE
    /\ olderInFlight = 0
    /\ lastIssued = <<>>
    /\ IdleValidator /\ IdleGenerator /\ IdleServer
    /\ IdleCanvasCache /\ IdlePanel /\ IdleExternal

NextPage ==
    \/ \E t \in CatalogTables : handleTablesAdd(<<t>>)
    \/ \E c \in CatalogColumns : handleColumnsAdd(<<c>>)
    \/ \E i \in 1..MaxTables : removeTable(i)
    \/ \E i \in 1..Cardinality(CatalogColumns) : removeColumn(i)
    \/ \E c \in CatalogColumns : handleConditionDrop(c)
    \/ \E i \in 1..MaxConditions, v \in ConditionValues : updateConditionValue(i, v)
    \/ \E i \in 1..MaxConditions : removeCondition(i)
    \/ handleExecuteQuery
    \/ \E page \in 1..MaxPage : handlePageChange(page)
    \/ handleExport
    \/ \E rows \in ResultRowCounts : MutationSucceeds(rows)
    \/ \E rows \in ResultRowCounts : OlderMutationSucceeds(rows)
    \/ MutationFails
    \/ OlderMutationFails
    \/ CloseResultsDialog

SpecPage == InitPage /\ [][NextPage]_vars

(***************************************************************************)
(* The canvas: the edit operations of QueryCanvas and of the schema panel  *)
(* on the page's queryConfig                                               *)
(***************************************************************************)
MaxCanvasJoins == 1

TableAliases == {"u"}
ColumnUpdates == {[alias |-> "total"]}

\* what an edit leaves alone outside queryConfig and generatedSQL
EditFrame ==
    /\ lastIssued' = <<>>
    /\ UNCHANGED <<queryResults, showResultsDialog, resultsPage, latestPending, olderInFlight,
                   validatorVars, generatorVars, serverVars,
                   canvasCacheVars, panelVars, externalVars>>

\* { ...entry, ...updates }
applyUpdates(entry, updates) ==
    [f \in DOMAIN entry \cup DOMAIN updates |->
        IF f \in DOMAIN updates THEN updates[f] ELSE entry[f]]

tableExists(tables, schema, tableName) ==
    \E i \in 1..Len(tables) : tables[i].tableName = tableName /\ tables[i].schema = schema

handleTableDrop(item) ==
    /\ BuilderOperable
    /\ LET currentTables == queryConfig.selectedTables
       IN IF ~tableExists(currentTables, item.schema, item.table)
          THEN setQueryConfig([queryConfig EXCEPT
                   !.selectedTables = Append(currentTables, ObjectTable(item.schema, item.table, ""))])
          ELSE UNCHANGED <<queryConfig, generatedSQL>>
    /\ EditFrame

handleColumnDrop(item) ==
    /\ BuilderOperable
    /\ LET newColumn == SelectedColumn(item.schema, item.table, item.columnName, "", "")
       IN IF \A i \in 1..Len(queryConfig.selectedColumns) :
                queryConfig.selectedColumns[i].id # newColumn.id
          THEN setQueryConfig([queryConfig EXCEPT
                   !.selectedColumns = Append(queryConfig.selectedColumns, newColumn)])
          ELSE UNCHANGED <<queryConfig, generatedSQL>>
    /\ EditFrame

updateColumn(index, updates) ==
    /\ BuilderOperable
    /\ index \in 1..Len(queryConfig.selectedColumns)
    /\ LET columnId == queryConfig.selectedColumns[index].id
       IN setQueryConfig([queryConfig EXCEPT
              !.selectedColumns = [i \in 1..Len(queryConfig.selectedColumns) |->
                                      IF queryConfig.selectedColumns[i].id = columnId
                                      THEN applyUpdates(queryConfig.selectedColumns[i], updates)
                                      ELSE queryConfig.selectedColumns[i]]])
    /\ EditFrame

updateTable(index, updates) ==
    /\ BuilderOperable
    /\ index \in 1..Len(queryConfig.selectedTables)
    /\ setQueryConfig([queryConfig EXCEPT
           !.selectedTables = [i \in 1..Len(queryConfig.selectedTables) |->
                                  IF i = index
                                  THEN applyUpdates(queryConfig.selectedTables[i], updates)
                                  ELSE queryConfig.selectedTables[i]]])
    /\ EditFrame

\* `join_${Date.now()}`: an id no present join carries
freshJoinId(joins) ==
    "join_" \o naturalToString(
        CHOOSE n \in 1..(Len(joins) + 1) :
            /\ \A i \in 1..Len(joins) : joins[i].id # "join_" \o naturalToString(n)
            /\ \A m \in 1..(n - 1) :
                  \E i \in 1..Len(joins) : joins[i].id = "join_" \o naturalToString(m))

addJoin ==
    /\ BuilderOperable
    /\ Len(queryConfig.selectedTables) >= 2
    /\ Len(queryConfig.joins) < MaxCanvasJoins
    /\ LET newJoin == [id |-> freshJoinId(queryConfig.joins),
                       type |-> "INNER",
                       leftTable |-> tableKey(queryConfig.selectedTables[1]),
                       leftColumn |-> "",
                       rightTable |-> tableKey(queryConfig.selectedTables[2]),
                       rightColumn |-> ""]
       IN setQueryConfig([queryConfig EXCEPT !.joins = Append(queryConfig.joins, newJoin)])
    /\ EditFrame

removeJoin(index) ==
    /\ BuilderOperable
    /\ index \in 1..Len(queryConfig.joins)
    /\ LET joinId == queryConfig.joins[index].id
           keep(j) == j.id # joinId
       IN setQueryConfig([queryConfig EXCEPT !.joins = SelectSeq(queryConfig.joins, keep)])
    /\ EditFrame

\* the right-table select of a join offers the selected tables
JoinUpdates ==
    {[rightTable |-> tableKey(queryConfig.selectedTables[i])] :
        i \in 1..Len(queryConfig.selectedTables)}

updateJoin(index, updates) ==
    /\ BuilderOperable
    /\ index \in 1..Len(queryConfig.joins)
    /\ LET joinId == queryConfig.joins[index].id
       IN setQueryConfig([queryConfig EXCEPT
              !.joins = [i \in 1..Len(queryConfig.joins) |->
                            IF queryConfig.joins[i].id = joinId
                            THEN applyUpdates(queryConfig.joins[i], updates)
                            ELSE queryConfig.joins[i]]])
    /\ EditFrame

InitCanvas == InitPage

NextCanvas ==
    \/ \E t \in CatalogTables : handleTablesAdd(<<t>>)
    \/ \E c \in CatalogColumns : handleColumnsAdd(<<c>>)
    \/ \E t \in CatalogTables : handleTableDrop(t)
    \/ \E c \in CatalogColumns : handleColumnDrop(c)
    \/ \E i \in 1..Cardinality(CatalogTables), a \in TableAliases : updateTable(i, [alias |-> a])
    \/ \E i \in 1..Cardinality(CatalogColumns), u \in ColumnUpdates : updateColumn(i, u)
    \/ \E i \in 1..Cardinality(CatalogTables) : removeTable(i)
    \/ \E i \in 1..Cardinality(CatalogColumns) : removeColumn(i)
    \/ \E c \in CatalogColumns : handleConditionDrop(c)
    \/ addJoin
    \/ \E i \in 1..MaxCanvasJoins : removeJoin(i)
    \/ \E i \in 1..MaxCanvasJoins, u \in JoinUpdates : updateJoin(i, u)

SpecCanvas == InitCanvas /\ [][NextCanvas]_vars

SelectedTables == queryConfig.selectedTables
SelectedColumns == queryConfig.selectedColumns
SQLLines == SplitLines(generatedSQL)

\* some JOIN part of the text names the table as its target
JoinedIn(lines, table) ==
    \E k \in 1..Len(lines), t \in JoinTypes :
        startsWith(lines[k], t \o " JOIN " \o table.schema \o "." \o table.tableName \o " ON ")

\* C13: in every configuration the edit operations reach, the text has a
\* FROM part when a table is selected, and every selected table after the
\* first is the target of an explicit JOIN part or, when joins is empty,
\* of a CROSS JOIN part; no selected table is missing from the text.
C13_EverySelectedTableRendered ==
    Len(SelectedTables) > 0 =>
        LET lines == SQLLines
        IN /\ Len(SelectSeq(lines, IsCrossJoin)) =
                 (IF Len(queryConfig.joins) = 0 THEN Len(SelectedTables) - 1 ELSE 0)
           /\ ClauseOf(lines[2]) = "FROM" \/ ClauseOf(lines[Len(SelectedColumns) + 2]) = "FROM"
           /\ Len(queryConfig.joins) > 0 =>
                 \A i \in 2..Len(SelectedTables) : JoinedIn(lines, SelectedTables[i])

TablePresent(t) == tableExists(SelectedTables, t.schema, t.table)
ColumnPresent(c) ==
    \E i \in 1..Len(SelectedColumns) :
        /\ SelectedColumns[i].schema = c.schema
        /\ SelectedColumns[i].tableName = c.table
        /\ SelectedColumns[i].columnName = c.columnName

\* C17: adding a table whose (schema, tableName) is selected, or a column
\* whose (schema, tableName, columnName) is selected, through
\* handleTablesAdd, handleColumnsAdd, handleTableDrop or handleColumnDrop
\* leaves the whole configuration as it was.
C17_AddingPresentKeyIsNoOp ==
    [][(\/ \E t \in CatalogTables :
              TablePresent(t) /\ (handleTablesAdd(<<t>>) \/ handleTableDrop(t))
        \/ \E c \in CatalogColumns :
              ColumnPresent(c) /\ (handleColumnsAdd(<<c>>) \/ handleColumnDrop(c)))
       => queryConfig' = queryConfig]_vars

KeysOf(tables) == [i \in 1..Len(tables) |-> tables[i].schema \o "." \o tables[i].tableName]
IdsOf(columns) == [i \in 1..Len(columns) |-> columns[i].id]

NoRepeats(seq) == \A i, j \in 1..Len(seq) : seq[i] = seq[j] => i = j

\* entries present before and after a step stand in the same relative order
SameRelativeOrder(before, after) ==
    \A i, j \in 1..Len(before), k, l \in 1..Len(after) :
        (i < j /\ before[i] = after[k] /\ before[j] = after[l]) => k < l

UniqueKeysAndIds ==
    /\ NoRepeats(KeysOf(SelectedTables))
    /\ NoRepeats(IdsOf(SelectedColumns))
    /\ \A i \in 1..Len(SelectedColumns) :
          SelectedColumns[i].id = SelectedColumns[i].schema \o "." \o SelectedColumns[i].tableName
                                  \o "." \o SelectedColumns[i].columnName

\* C18: after any sequence of add, remove and update operations from the
\* empty configuration no two selected tables share (schema, tableName), no
\* two selected columns share an id, every column id is
\* schema.tableName.columnName of its entry, and entries that survive a
\* step keep their relative order.
C18_UniqueKeysInInsertionOrder ==
    /\ []UniqueKeysAndIds
    /\ [][/\ SameRelativeOrder(KeysOf(SelectedTables), KeysOf(SelectedTables'))
          /\ SameRelativeOrder(IdsOf(SelectedColumns), IdsOf(SelectedColumns'))]_vars

C18_Witness ==
    /\ KeysOf(SelectedTables) = <<"public.orders", "public.users">>
    /\ SelectedTables[2].alias = "u"
    /\ IdsOf(SelectedColumns) = <<"public.users.created_at", "public.users.id">>
    /\ SelectedColumns[1].alias = "total"

\* C19: a step that removes a table drops the entries with one selected
\* (schema, tableName) from selectedTables and changes nothing else of the
\* configuration, also when columns, joins or conditions name that table.
C19_RemoveTableChangesOnlyTables ==
    [][Len(SelectedTables') < Len(SelectedTables) =>
          /\ \E i \in 1..Len(SelectedTables) :
                LET other(t) == tableKey(t) # tableKey(SelectedTables[i])
                IN SelectedTables' = SelectSeq(SelectedTables, other)
          /\ queryConfig' = [queryConfig EXCEPT !.selectedTables = SelectedTables']]_vars

\* the join and the column outlive the table they name
C19_Witness ==
    /\ Len(SelectedTables) = 0
    /\ Len(queryConfig.joins) = 1
    /\ Len(SelectedColumns) > 0
    /\ Len(queryConfig.conditions) > 0

\* C5: over any sequence of edits, Execute clicks, page changes and Export
\* clicks, a query-execution request or an export request is issued only
\* when validateSQL of the generated SQL at that moment returns
\* isValid = true.
C5_RequestsOnlyForValidSQL ==
    lastIssued # <<>> => validateSQL(lastIssued[1].sql).isValid

\* the text the page is to show for its configuration
DisplayedText ==
    IF queryConfig.selectedTables = <<>> THEN "" ELSE generateSQL(queryConfig)

\* C26: the page's generatedSQL follows queryConfig: after every step, those
\* that change the configuration included, generatedSQL is
\* generateSQL(current configuration) when a table is selected and the empty
\* string when none is; at no time does it hold the text of an older
\* configuration.
C26_DisplayedTextFollowsConfig == [](generatedSQL = DisplayedText)

C26_Witness ==
    /\ Len(queryConfig.selectedTables) = 1
    /\ Len(queryConfig.selectedColumns) = 1
    /\ queryConfig.selectedColumns[1].alias = "total"
    /\ generatedSQL = "SELECT\n  users.id AS total\nFROM [object Object]"

(***************************************************************************)
(* QueryCanvas: the columns cache filled by the effect on                  *)
(* JSON.stringify(config.selectedTables)                                   *)
(***************************************************************************)
MaxFetchRuns == 2

\* what fetchTableColumns resolves to: the column names of the rows
FetchedColumns == {<<"id", " ", "name">>, <<>>}

canvasKey(t) == t.schema \o "." \o t.tableName

\* newCache[key] = columns
putEntry(cache, key, columns) ==
    [k \in DOMAIN cache \cup {key} |-> IF k = key THEN columns ELSE cache[k]]

hasColumnName(name) == trim(name) # ""

\* the entry stored for a resolved fetch
cachedColumns(columns) ==
    IF Len(columns) > 0 THEN SelectSeq(columns, hasColumnName) ELSE <<>>

\* the effect body for a render with the tables given: fetchMissingColumns
\* up to its first await, or to its end when nothing is missing
canvasFetchMissingColumns(tables) ==
    IF Len(tables) > 0
    THEN LET newCache == canvasColumnsCache
             missing(t) == canvasKey(t) \notin DOMAIN newCache
             missingTables == SelectSeq(tables, missing)
         IN IF missingTables = <<>>
            THEN /\ canvasColumnsCache' = newCache
                 /\ canvasIsLoadingColumns' = FALSE
                 /\ UNCHANGED canvasFetchRuns
            ELSE /\ Len(canvasFetchRuns) < MaxFetchRuns
                 /\ canvasFetchRuns' = Append(canvasFetchRuns,
                        [newCache |-> newCache, missingTables |-> missingTables])
                 /\ canvasIsLoadingColumns' = TRUE
                 /\ UNCHANGED canvasColumnsCache
    ELSE UNCHANGED canvasCacheVars

CacheFrame ==
    /\ lastIssued' = <<>>
    /\ UNCHANGED <<queryResults, showResultsDialog, resultsPage, latestPending, olderInFlight,
                   validatorVars, generatorVars, serverVars, panelVars, externalVars>>

\* handleTableDrop for a table not yet selected, and the render that follows
TableDropped(item) ==
    /\ BuilderOperable
    /\ ~tableExists(queryConfig.selectedTables, item.schema, item.table)
    /\ setQueryConfig([queryConfig EXCEPT
           !.selectedTables = Append(queryConfig.selectedTables,
                                     ObjectTable(item.schema, item.table, ""))])
    /\ canvasFetchMissingColumns(queryConfig'.selectedTables)
    /\ CacheFrame

\* removeTable, and the render that follows
TableRemoved(index) ==
    /\ BuilderOperable
    /\ index \in 1..Len(queryConfig.selectedTables)
    /\ LET tableToRemove == queryConfig.selectedTables[index]
           keep(t) == keepTable(t, tableToRemove)
       IN setQueryConfig([queryConfig EXCEPT
              !.selectedTables = SelectSeq(queryConfig.selectedTables, keep)])
    /\ canvasFetchMissingColumns(queryConfig'.selectedTables)
    /\ CacheFrame

dropRun(runs, r) == [i \in 1..(Len(runs) - 1) |-> IF i < r THEN runs[i] ELSE runs[i + 1]]

\* run r resumes after its await with the entry to store for the table it
\* asked for; after the last missing table it calls setColumnsCache(newCache)
canvasRunResumes(r, entry) ==
    /\ LET run == canvasFetchRuns[r]
           newCache == putEntry(run.newCache, canvasKey(Head(run.missingTables)), entry)
           rest == Tail(run.missingTables)
       IN IF rest = <<>>
          THEN /\ canvasColumnsCache' = newCache
               /\ canvasIsLoadingColumns' = FALSE
               /\ canvasFetchRuns' = dropRun(canvasFetchRuns, r)
          ELSE /\ canvasFetchRuns' = [canvasFetchRuns EXCEPT
                      ![r] = [newCache |-> newCache, missingTables |-> rest]]
               /\ UNCHANGED <<canvasColumnsCache, canvasIsLoadingColumns>>
    /\ UNCHANGED <<pageVars, validatorVars, generatorVars, serverVars, panelVars, externalVars>>

CanvasFetchResolves(r, columns) ==
    /\ r \in 1..Len(canvasFetchRuns)
    /\ canvasRunResumes(r, cachedColumns(columns))

\* the catch branch: newCache[key] = []
CanvasFetchRejects(r) ==
    /\ r \in 1..Len(canvasFetchRuns)
    /\ canvasRunResumes(r, <<>>)

InitColumnCache == InitPage

NextColumnCache ==
    \/ \E t \in CatalogTables : TableDropped(t)
    \/ \E i \in 1..MaxTables : TableRemoved(i)
    \/ \E r \in 1..MaxFetchRuns, columns \in FetchedColumns : CanvasFetchResolves(r, columns)
    \/ \E r \in 1..MaxFetchRuns : CanvasFetchRejects(r)

SpecColumnCache == InitColumnCache /\ [][NextColumnCache]_vars

\* C27: whenever no column fetch of the canvas is in flight, columnsCache
\* holds an entry for every table of selectedTables, also when tables were
\* added while an earlier fetch run was in flight and whatever the order in
\* which the runs completed.
C27_CacheCompleteOnceFetched ==
    canvasFetchRuns = <<>> =>
        \A i \in 1..Len(queryConfig.selectedTables) :
            (queryConfig.selectedTables[i].schema \o "." \o queryConfig.selectedTables[i].tableName)
                \in DOMAIN canvasColumnsCache

(***************************************************************************)
(* QueryConfiguration: the column-loading effect on                        *)
(* [allTables.join(','), columnsCache] and the effect that builds          *)
(* availableColumns on the same dependencies                               *)
(***************************************************************************)
MaxCacheObjects == 2

\* setColumnsCache(newCache) with a newly built object
freshObject == (columnsCacheObject + 1) % MaxCacheObjects

RECURSIVE distinctEntries(_, _)
distinctEntries(list, seen) ==
    IF list = <<>> THEN seen
    ELSE distinctEntries(Tail(list),
                         IF \E i \in 1..Len(seen) : seen[i] = Head(list) THEN seen
                         ELSE Append(seen, Head(list)))

\* Array.from(new Set([...selectedTables, ...left tables, ...right tables]))
allTables(cfg) ==
    distinctEntries(cfg.selectedTables
                    \o [i \in 1..Len(cfg.joins) |-> StringTable(cfg.joins[i].leftTable)]
                    \o [i \in 1..Len(cfg.joins) |-> StringTable(cfg.joins[i].rightTable)],
                    <<>>)

\* `table && !(table in columnsCache)`: the property key is the entry as text
isMissing(table, cache) ==
    /\ table.kind = "object" \/ table.text # ""
    /\ tableToString(table) \notin DOMAIN cache

RECURSIVE buildAvailableColumns(_, _)
buildAvailableColumns(tables, cache) ==
    IF tables = <<>> THEN <<>>
    ELSE LET tableName == tableToString(Head(tables))
             columns == IF tableName \in DOMAIN cache THEN cache[tableName] ELSE <<>>
         IN [i \in 1..Len(columns) |-> tableName \o "." \o columns[i]]
            \o buildAvailableColumns(Tail(tables), cache)

PanelFrame == UNCHANGED <<pageVars, validatorVars, generatorVars, serverVars,
                          canvasCacheVars, externalVars>>

\* the two effects of a render whose dependencies changed: fetchMissingColumns
\* up to its first await, or to its end when nothing is missing (its
\* setColumnsCache then stores a fresh object, which changes the dependency
\* again), and setAvailableColumns
RunEffects ==
    /\ effectDue
    /\ availableColumns' = buildAvailableColumns(allTables(queryConfig), columnsCache)
    /\ IF Len(allTables(queryConfig)) > 0
       THEN LET missing(t) == isMissing(t, columnsCache)
                missingTables == SelectSeq(allTables(queryConfig), missing)
                newCache == columnsCache
            IN IF missingTables = <<>>
               THEN /\ columnsCache' = newCache
                    /\ columnsCacheObject' = freshObject
                    /\ errorTables' = <<>>
                    /\ isLoadingColumns' = FALSE
                    /\ effectDue' = TRUE
                    /\ UNCHANGED fetchRuns
               ELSE /\ fetchRuns' = Append(fetchRuns,
                           [newCache |-> newCache, newErrorTables |-> <<>>,
                            missingTables |-> missingTables])
                    /\ isLoadingColumns' = TRUE
                    /\ effectDue' = FALSE
                    /\ UNCHANGED <<columnsCache, columnsCacheObject, errorTables>>
       ELSE /\ effectDue' = FALSE
            /\ UNCHANGED <<columnsCache, columnsCacheObject, errorTables, isLoadingColumns,
                           fetchRuns>>
    /\ PanelFrame

\* run r resumes after its await; after the last missing table it calls
\* setColumnsCache(newCache), setErrorTables and setIsLoadingColumns(false)
panelRunResumes(r, entry, failed) ==
    /\ LET run == fetchRuns[r]
           tableName == tableToString(Head(run.missingTables))
           newCache == putEntry(run.newCache, tableName, entry)
           newErrorTables == IF failed THEN Append(run.newErrorTables, tableName)
                             ELSE run.newErrorTables
           rest == Tail(run.missingTables)
       IN IF rest = <<>>
          THEN /\ columnsCache' = newCache
               /\ columnsCacheObject' = freshObject
               /\ errorTables' = newErrorTables
               /\ isLoadingColumns' = FALSE
               /\ effectDue' = TRUE
               /\ fetchRuns' = dropRun(fetchRuns, r)
          ELSE /\ fetchRuns' = [fetchRuns EXCEPT
                      ![r] = [newCache |-> newCache, newErrorTables |-> newErrorTables,
                              missingTables |-> rest]]
               /\ UNCHANGED <<columnsCache, columnsCacheObject, errorTables,
                              isLoadingColumns, effectDue>>
    /\ UNCHANGED availableColumns
    /\ PanelFrame

PanelFetchResolves(r, columns) ==
    /\ r \in 1..Len(fetchRuns)
    /\ panelRunResumes(r, cachedColumns(columns), Len(columns) = 0)

PanelFetchRejects(r) ==
    /\ r \in 1..Len(fetchRuns)
    /\ panelRunResumes(r, <<>>, TRUE)

\* configurations the panel is mounted with
PanelTables == {StringTable("users"), StringTable("orders"), ObjectTable("public", "users", "")}

PanelConfigs ==
    {[EmptyConfig EXCEPT !.selectedTables = tables, !.joins = joins] :
       tables \in SeqsUpTo(PanelTables, MaxTables), joins \in {<<>>, <<BlankJoin>>}}

InitPanel ==
    /\ queryConfig \in PanelConfigs
    /\ generatedSQL = renderSQL(queryConfig)
    /\ queryResults = <<>>
    /\ showResultsDialog = FALSE
    /\ resultsPage = 1
    /\ latestPending = FALSE
    /\ olderInFlight = 0
    /\ lastIssued = <<>>
    /\ columnsCache = EmptyCache
    /\ availableColumns = <<>>
    /\ errorTables = <<>>
    /\ isLoadingColumns = FALSE
    /\ fetchRuns = <<>>
    /\ effectDue = TRUE
    /\ columnsCacheObject = 0
    /\ IdleValidator /\ IdleGenerator /\ IdleServer
    /\ IdleCanvasCache /\ IdleExternal

NextPanel ==
    \/ RunEffects
    \/ \E r \in 1..MaxFetchRuns, columns \in FetchedColumns : PanelFetchResolves(r, columns)
    \/ \E r \in 1..MaxFetchRuns : PanelFetchRejects(r)

\* React runs a due effect and a fetch settles: every step that can be
\* taken eventually is
SpecPanel == InitPanel /\ [][NextPanel]_vars /\ WF_vars(NextPanel)

Quiescent == ~effectDue /\ fetchRuns = <<>>

\* C28: with at least one table selected, the column-loading effect of
\* QueryConfiguration eventually comes to rest for good: no fetch is in
\* flight and no run of the effect is due, so storing columnsCache does not
\* bring the effect back again and again.
C28_ColumnEffectQuiesces ==
    Len(queryConfig.selectedTables) > 0 => <>[]Quiescent

(***************************************************************************)
(* Server routes POST /api/database/connect and /api/database/disconnect,  *)
(* ExternalDatabaseManager and the routing of DatabaseStorage.executeQuery *)
(***************************************************************************)
MaxConnectRequests == 2
MaxDisconnects == 2

\* connection configurations sent by clients
ExternalConfigs == {"analytics", "warehouse"}

isExternalDatabaseConfigured == currentConfig # <<>>

setConfiguration(cfg) == currentConfig' = <<cfg>>
clearConfiguration == currentConfig' = <<>>
setExternalDatabase(useExternal) == useExternalDB' = useExternal

ExternalFrame == UNCHANGED <<validatorVars, generatorVars, serverVars, pageVars,
                             canvasCacheVars, panelVars>>

\* POST /api/database/connect up to `await externalDbManager.testConnection`
PostDatabaseConnect(cfg) ==
    /\ Len(connectRequests) < MaxConnectRequests
    /\ connectRequests' = Append(connectRequests, [config |-> cfg, receivedAfter |-> disconnects])
    /\ UNCHANGED <<currentConfig, useExternalDB, disconnectRequests, disconnects,
                   configuredBy, lastRoute>>
    /\ ExternalFrame

\* the test of request r succeeded: the handler sets the configuration,
\* switches the storage and answers
ConnectTestSucceeds(r) ==
    /\ r \in 1..Len(connectRequests)
    /\ setConfiguration(connectRequests[r].config)
    /\ setExternalDatabase(TRUE)
    /\ configuredBy' = connectRequests[r].receivedAfter
    /\ connectRequests' = dropRun(connectRequests, r)
    /\ UNCHANGED <<disconnectRequests, disconnects, lastRoute>>
    /\ ExternalFrame

\* the test of request r failed: the handler answers 400 and changes nothing
ConnectTestFails(r) ==
    /\ r \in 1..Len(connectRequests)
    /\ connectRequests' = dropRun(connectRequests, r)
    /\ UNCHANGED <<currentConfig, useExternalDB, disconnectRequests, disconnects,
                   configuredBy, lastRoute>>
    /\ ExternalFrame

\* POST /api/database/disconnect up to `await import('./external-db')`
PostDatabaseDisconnect ==
    /\ disconnects + disconnectRequests < MaxDisconnects
    /\ disconnectRequests' = disconnectRequests + 1
    /\ UNCHANGED <<currentConfig, useExternalDB, connectRequests, disconnects,
                   configuredBy, lastRoute>>
    /\ ExternalFrame

\* the rest of the disconnect handler: clear, switch the storage, answer
DisconnectResumes ==
    /\ disconnectRequests > 0
    /\ clearConfiguration
    /\ setExternalDatabase(FALSE)
    /\ disconnectRequests' = disconnectRequests - 1
    /\ disconnects' = disconnects + 1
    /\ UNCHANGED <<connectRequests, configuredBy, lastRoute>>
    /\ ExternalFrame

routesExternal == useExternalDB /\ isExternalDatabaseConfigured

\* DatabaseStorage.executeQuery chooses the external database or the local pool
executeQuery ==
    /\ lastRoute' = IF routesExternal THEN "external" ELSE "local"
    /\ UNCHANGED <<currentConfig, useExternalDB, connectRequests, disconnectRequests,
                   disconnects, configuredBy>>
    /\ ExternalFrame

InitExternal ==
    /\ IdleExternal
    /\ IdleValidator /\ IdleGenerator /\ IdleServer /\ IdlePage
    /\ IdleCanvasCache /\ IdlePanel

NextExternal ==
    \/ \E cfg \in ExternalConfigs : PostDatabaseConnect(cfg)
    \/ \E r \in 1..MaxConnectRequests : ConnectTestSucceeds(r)
    \/ \E r \in 1..MaxConnectRequests : ConnectTestFails(r)
    \/ PostDatabaseDisconnect
    \/ DisconnectResumes
    \/ executeQuery

SpecExternal == InitExternal /\ [][NextExternal]_vars

\* C30: between handler steps useExternalDB is true exactly when a
\* configuration is set, and a query is routed to the external database only
\* if the configuration in force was set by a connect request that arrived
\* after the last answered disconnect; after a disconnect has answered,
\* queries go to the local pool until such a request succeeds.
C30_ExternalRoutingFollowsLatestConnect ==
    /\ [](useExternalDB <=> currentConfig # <<>>)
    /\ [][(executeQuery /\ lastRoute' = "external") => configuredBy = disconnects]_vars


====
